---------------------------- MODULE Spec2Model ----------------------------
(***************************************************************************)
(* A model of the trend scanner of src/trend_scanner.py: the breakout     *)
(* decision of scan_trends_with_notification, the adaptive rate limiter   *)
(* make_trends_request, and the batch scheduler scan_all_categories.      *)
(*                                                                         *)
(* Interest values are integers 0..100 (the provider's normalised score). *)
(* Means, standard deviations and z-scores are never rounded: every       *)
(* comparison the code makes on them is restated over the integer sums    *)
(* n, S = sum, Q = sum of squares, so it is decided exactly.              *)
(***************************************************************************)
EXTENDS Integers, Sequences, FiniteSets, TLC

VARIABLES
    \* ---- data of the term under analysis (scan_trends_with_notification)
    recent_data,        \* rows of get_recent_trend_data; << >> is None
    ninety_day_data,    \* [err, rows] of the 90-day context fetch
    historical_data,    \* rows of get_historical_trend_data; << >> is None
    results,            \* the list `results` of the running category scan
    alerts,             \* messages handed to send_telegram_alert, in order
    outcome,            \* how the processing of the term ended; "pending" until it has
    \* ---- rate limiter state (TrendScanner.__init__, make_trends_request)
    request_count,      \* self.request_count
    consecutive_429s,   \* self.consecutive_429s
    base_delay,         \* self.base_delay
    window_age,         \* time.time() - self.last_request_time, capped at 60
    current_delay,      \* the local current_delay of the running call
    lpc,                \* where the running make_trends_request call stands
    ret,                \* how the last make_trends_request call ended
    streak,             \* base_delay after each 429 of the current run of
                        \* consecutive calls that ended in a 429
    cancelled,          \* whether a call was ever cancelled at an await
    \* ---- scan_trends_with_notification and get_recent_trend_data
    pc,                 \* where the single driving task stands
    index,              \* enumerate(search_terms, 1): the term being analysed
    attempt,            \* the retry loop variable of the running fetch
    call,               \* the provider method the running limiter call wraps
    fetch_timer,        \* seconds since wait_for(..., timeout=120) began, -1 when off
    cat_timer,          \* seconds since wait_for(..., timeout=300) began, -1 when off
    calls,              \* provider calls issued so far: [what, limited]
    abandoned,          \* executor threads still running a call whose await was cancelled
    \* ---- scan_all_categories
    categories,         \* the catalog: number of search terms of each category
    current_index,      \* current_index
    batch_number,       \* batch_number
    terms_in_current_batch,
    batch_elapsed,      \* datetime.now() - batch_start_time, -1 outside a batch
    breakouts,          \* the list `breakouts` of the cycle
    submitted,          \* categories handed to scan_trends_with_notification, in order
    rest_elapsed,       \* datetime.now() - rest_start, -1 outside a rest period
    \* ---- get_recent_trend_data
    trend_data,         \* the provider's answer by day: the rows of today, of
                        \* yesterday, of the day before, ...
    \* ---- main and run_continuous_scan
    restart_count,      \* restart_count of main
    time_elapsed,       \* time_elapsed of the cycle that returned, -1 when there is none
    slept,              \* seconds slept since that cycle returned
    interval,           \* the loop variable i of the sleep between two cycles
    \* ---- send_telegram_alert
    chat_ids,           \* TELEGRAM_CHAT_IDS.split(','), each entry as int() reads it
    next_chat,          \* how many entries of chat_ids the loop has taken
    sent,               \* the send_message calls made: [chat_id, ok]
    raised,             \* whether send_telegram_alert raised to its caller
    \* ---- cloud_scheduler.scheduler
    spc,                \* where the scheduler task stands
    now,                \* datetime.utcnow() as seconds since midnight UTC
    wait_seconds,       \* wait_seconds, -1 before it is first computed
    starts              \* how often run_scanner was started

detVars == <<recent_data, ninety_day_data, historical_data, results, alerts, outcome>>

limVars == <<request_count, consecutive_429s, base_delay, window_age,
             current_delay, lpc, ret, streak, cancelled>>

scanVars == <<pc, index, attempt, call, fetch_timer, cat_timer, calls, abandoned>>

schedVars == <<categories, current_index, batch_number, terms_in_current_batch,
               batch_elapsed, breakouts, submitted>>

mainVars == <<restart_count, time_elapsed, interval, slept>>

sendVars == <<chat_ids, next_chat, sent, raised>>

restVars == <<rest_elapsed>>

provVars == <<trend_data>>

cloudVars == <<spc, now, wait_seconds, starts>>

vars == <<detVars, limVars, scanVars, schedVars, mainVars, sendVars, restVars, provVars,
          cloudVars>>

----------------------------------------------------------------------------
\* Bounds of the inputs
MaxRecentLen == 1
MaxNinetyLen == 2
MaxHistLen == 4

\* Interest values the bounded inputs are drawn from
RecentValues == {89, 90, 100}
NinetyValues == {89, 90}
HistValues == {0, 50, 60, 90}

SeqsUpTo(S, n) == UNION {[1..k -> S] : k \in 1..n}

\* `k` copies of `a` followed by `p`: a flat baseline and the latest point
Flat(a, k, p) == [i \in 1..(k + 1) |-> IF i <= k THEN a ELSE p]

\* Scenario A: 60 daily values of 20, then today's 95
ScenarioA == Flat(20, 60, 95)
\* Scenario B: 60 daily values oscillating 80/85, then today's 92
ScenarioB == [i \in 1..61 |-> IF i = 61 THEN 92 ELSE IF i % 2 = 1 THEN 80 ELSE 85]

LongSeries == {ScenarioA, ScenarioB} \cup {Flat(a, 6, p) : a \in {10, 20, 60}, p \in {90, 100}}

RecentInputs == {<< >>} \cup SeqsUpTo(RecentValues, MaxRecentLen) \cup {<<95>>, <<92>>}
NinetyInputs == {[err |-> TRUE, rows |-> << >>], [err |-> FALSE, rows |-> << >>]}
                \cup {[err |-> FALSE, rows |-> r] : r \in SeqsUpTo(NinetyValues, MaxNinetyLen)}
HistInputs == {<< >>} \cup SeqsUpTo(HistValues, MaxHistLen) \cup LongSeries

----------------------------------------------------------------------------
\* The absolute interest floor (the literal 90 of lines 880 and 932)
InterestFloorLowered == 90 - 10

InterestFloor == 90

\* Series arithmetic (pandas .sum/.max over a column of integers)
RECURSIVE SeqSum(_)
SeqSum(s) == IF s = << >> THEN 0 ELSE Head(s) + SeqSum(Tail(s))

RECURSIVE SeqSumSq(_)
SeqSumSq(s) == IF s = << >> THEN 0 ELSE Head(s) * Head(s) + SeqSumSq(Tail(s))

RECURSIVE SeqMax(_)
SeqMax(s) == IF Len(s) = 1 THEN Head(s)
             ELSE LET m == SeqMax(Tail(s)) IN IF Head(s) >= m THEN Head(s) ELSE m

\* s[-k:] of Python: the last k rows (all of them when there are fewer)
LastRows(s, k) == IF Len(s) <= k THEN s ELSE SubSeq(s, Len(s) - k + 1, Len(s))

\* max_interest = recent_data[term].max()
MaxInterest(recent) == SeqMax(recent)

\* the statistics taken over the whole of historical_data
BaselineWhole(hist) == hist

\* historical_data[:-1]: every row but the latest
Baseline(hist) == SubSeq(hist, 1, Len(hist) - 1)

\* n * n * (n - 1) * variance of the baseline (pandas .std(), ddof = 1), times n:
\* n*Q - S*S is zero exactly when every baseline value is the same
SpreadOf(b) == Len(b) * SeqSumSq(b) - SeqSum(b) * SeqSum(b)

\* the test baseline_std > 0 taken as passed whenever .std() is a number
StdPositiveUnchecked(b) == Len(b) >= 2

\* baseline_std > 0; with fewer than two rows .std() is NaN and the test is false
StdPositive(b) == Len(b) >= 2 /\ SpreadOf(b) > 0

\* z_score >= 3.0, where z_score = (max_interest - baseline_avg) / baseline_std
\* if baseline_std > 0 else 0
ZScoreAtLeast3(peak, b) ==
    LET n == Len(b)
        d == n * peak - SeqSum(b)
    IN  /\ StdPositive(b)
        /\ d >= 0
        /\ d * d * (n - 1) >= 9 * n * SpreadOf(b)

\* line 927: z_score is 0: the else branch was taken, or the peak equals
\* the baseline average
ZScoreZero(peak, b) == ~StdPositive(b) \/ Len(b) * peak = SeqSum(b)

\* max_interest >= baseline_avg * 2.5
AtLeast25TimesAvg(peak, b) == 2 * Len(b) * peak >= 5 * SeqSum(b)

\* max_interest >= baseline_max * 1.3
AtLeast13TimesMax(peak, b) == 10 * peak >= 13 * SeqMax(b)

\* is_breakout; with an empty baseline every statistic is NaN and the
\* comparison max_interest > baseline_max is false
IsBreakoutAllowingPlateau(peak, hist) ==
    LET b == Baseline(hist)
    IN  /\ Len(b) >= 1
        /\ peak >= InterestFloor
        /\ peak >= SeqMax(b)
        /\ \/ AtLeast25TimesAvg(peak, b)
           \/ ZScoreAtLeast3(peak, b) /\ AtLeast13TimesMax(peak, b)

IsBreakout(peak, hist) ==
    LET b == Baseline(hist)
    IN  /\ Len(b) >= 1
        /\ peak >= InterestFloor
        /\ peak > SeqMax(b)
        /\ \/ AtLeast25TimesAvg(peak, b)
           \/ ZScoreAtLeast3(peak, b) /\ AtLeast13TimesMax(peak, b)

\* the guard with the recent week taken from the rows before the latest
StaleMomentumExcludingLatest(hist) ==
    /\ Len(hist) >= 7
    /\ 2 * (Len(hist) - 1) * SeqSum(LastRows(SubSeq(hist, 1, Len(hist) - 1), 7))
          > 21 * SeqSum(SubSeq(hist, 1, Len(hist) - 1))

\* recent_week_avg > baseline_avg * 1.5, recent_week_avg the mean of
\* historical_data[-7:] (the latest row included), checked when there are
\* at least 7 rows
StaleMomentum(hist) ==
    /\ Len(hist) >= 7
    /\ 2 * (Len(hist) - 1) * SeqSum(LastRows(hist, 7)) > 21 * SeqSum(Baseline(hist))

\* the first check of the processing block: max_interest < 90
BelowThreshold(recent) == MaxInterest(recent) < InterestFloor

\* the 90-day context check: "error" when the fetch raised, "pass" when it
\* returned nothing (the check is skipped) or today's value is at least 90
\* and at least 0.9 of the 90-day maximum
ContextCheck(ninety) ==
    IF ninety.err THEN "error"
    ELSE IF ninety.rows = << >> THEN "pass"
    ELSE LET today_value_90d == ninety.rows[Len(ninety.rows)]
         IN  IF today_value_90d < 90 THEN "low"
             ELSE IF 10 * today_value_90d < 9 * SeqMax(ninety.rows) THEN "not_max"
             ELSE "pass"

\* The processing block of one term, lines 870-973, as a function of the
\* three fetched series
ProcessOutcome(recent, ninety, hist) ==
    IF BelowThreshold(recent) THEN "below_threshold"
    ELSE IF ContextCheck(ninety) # "pass" THEN "context_" \o ContextCheck(ninety)
    ELSE IF hist = << >> THEN "no_history"
    ELSE IF ~IsBreakout(MaxInterest(recent), hist) THEN "no_breakout"
    ELSE IF StaleMomentum(hist) THEN "suppressed"
    ELSE "breakout"

\* the dict `analysis` appended to results; baseline stands for the
\* baseline_avg and z_score computed from it
Analysis(term, recent, hist) ==
    [term |-> term, recent_peak |-> MaxInterest(recent), baseline |-> Baseline(hist)]

----------------------------------------------------------------------------
\* Program constants
request_limit == 10
cooldown_minutes == 1
InitialBaseDelay == 5
WindowSeconds == 60
DelayFloor == 5
DelayCeiling == 30
DelayStep == 5
TermTimeout == 120
CategoryTimeout == 300
BatchSeconds == 900
RestSeconds == 120
RestHeartbeat == 30
TermPause == 20
max_retries == 3
RetryBaseDelay == 60
SCAN_INTERVAL_HOURS == 24
sleep_interval == 900
RestartSeconds == 60
\* lines 35-36: the test mode and its cap on the terms of a batch
IS_TEST_MODE == FALSE
TEST_BATCH_SIZE == 3

\* Bound on the length of a run of consecutive 429 answers
MaxStreak == 7
\* Bounds of the catalog: the categories of a catalog whose categories have
\* at most one search term, and the search terms of a catalog of one category
MaxCategories == 4
MaxTerms == 2
\* Bound on the executor threads left behind by cancelled calls
MaxAbandoned == 1
\* Bound on the restarts of main
MaxRestarts == 2
\* Bound on the entries of TELEGRAM_CHAT_IDS
MaxRecipients == 3

Min(a, b) == IF a <= b THEN a ELSE b
Max(a, b) == IF a >= b THEN a ELSE b

\* a sleep drawn from below the delay
JitterBelow(delay) == {delay \div 2, delay}

\* random.uniform(current_delay, current_delay * 1.5): the two ends
JitterOf(delay) == {delay, delay + delay \div 2}
\* the sleep a scan cycle is explored with: the shortest one that
\* random.uniform(current_delay, current_delay * 1.5) can draw
ShortestJitter(delay) == {delay}
\* and the shortest one that random.uniform(20, 30) of
\* get_historical_trend_data can draw
HistJitter == {20}
\* seconds a provider call spends in the executor: it answers at once, or
\* it outlasts every timeout
ExecTimes == {0, 300}
\* seconds the caller lets pass between two calls
IdleGaps == {20, 60}

\* what the fetches of a term may bring back
FetchedRecent == {<< >>, <<89>>, <<95>>}
FetchedNinety == {[err |-> TRUE, rows |-> << >>], [err |-> FALSE, rows |-> << >>],
                  [err |-> FALSE, rows |-> <<89>>]}
FetchedHist == {<<0, 95>>, <<95, 95>>, Flat(20, 6, 95)}

Catalogs == SeqsUpTo(0..1, MaxCategories) \cup {<<t>> : t \in 1..MaxTerms}

NoTimer == 0 - 1
Forever == 1000 * 1000
NoNinety == [err |-> FALSE, rows |-> << >>]

\* the longest a batch can be seen to last: a category taken up just before
\* the 900 seconds are over and cut off by its own timeout
BatchCap == BatchSeconds + CategoryTimeout

\* a running timer after d more seconds; a timer that is off stays off
Aged(timer, d, cap) == IF timer < 0 THEN timer ELSE Min(cap, timer + d)

\* seconds until asyncio.wait_for(get_recent_trend_data, 120) expires
FetchLeft == IF fetch_timer < 0 THEN Forever ELSE TermTimeout - fetch_timer
\* seconds until asyncio.wait_for(scan_trends_with_notification, 300) expires
CatLeft == IF cat_timer < 0 THEN Forever ELSE CategoryTimeout - cat_timer

\* how an await of d seconds ends: it completes, or the nearer wait_for
\* cancels it (the outer one when both expire together)
AwaitEnd(d) ==
    IF d < FetchLeft /\ d < CatLeft THEN "done"
    ELSE IF CatLeft <= FetchLeft THEN "cat_timeout"
    ELSE "fetch_timeout"

\* the seconds that pass until it ends
AwaitTime(d) == IF AwaitEnd(d) = "done" THEN d ELSE Max(0, Min(FetchLeft, CatLeft))

\* d seconds pass on the clock the window is measured with
WindowAfter(d) == Min(WindowSeconds, window_age + d)

InitLimiter ==
    /\ request_count = 0
    /\ consecutive_429s = 0
    /\ base_delay = InitialBaseDelay
    /\ window_age = 0
    /\ current_delay = 0
    /\ lpc = "idle"
    /\ ret = "none"
    /\ streak = << >>
    /\ cancelled = FALSE

InitData ==
    /\ recent_data = << >>
    /\ ninety_day_data = NoNinety
    /\ historical_data = << >>
    /\ results = << >>
    /\ alerts = << >>
    /\ outcome = "pending"

InitScanner ==
    /\ index = 0
    /\ attempt = 0
    /\ call = "none"
    /\ fetch_timer = NoTimer
    /\ cat_timer = NoTimer
    /\ calls = {}
    /\ abandoned = 0

InitMain ==
    /\ restart_count = 0
    /\ time_elapsed = NoTimer
    /\ interval = 0
    /\ slept = 0

InitSend ==
    /\ chat_ids = << >>
    /\ next_chat = 0
    /\ sent = << >>
    /\ raised = FALSE

InitProvider == trend_data = << >>

\* the scheduler of cloud_scheduler.py is not running
InitCloud ==
    /\ spc = "off"
    /\ now = 0
    /\ wait_seconds = NoTimer
    /\ starts = 0

InitScheduler ==
    /\ current_index = 0
    /\ batch_number = 1
    /\ terms_in_current_batch = 0
    /\ batch_elapsed = NoTimer
    /\ breakouts = << >>
    /\ submitted = << >>
    /\ rest_elapsed = NoTimer

----------------------------------------------------------------------------
\* make_trends_request

\* max(0, self.consecutive_429s - 1)
DecayedCountUnfloored == consecutive_429s - 1

DecayedCount == Max(0, consecutive_429s - 1)

\* max(5, self.base_delay - 1)
LoweredBaseDelay == Max(DelayFloor, base_delay - 1)

\* min(30, self.base_delay + 5)
RaisedBaseDelayUncapped == base_delay + DelayStep

RaisedBaseDelay == Min(DelayCeiling, base_delay + DelayStep)

\* lines 1005-1018: the window reset when a minute has passed, then the
\* adaptive delay
LimiterEntry ==
    /\ IF window_age >= WindowSeconds
       THEN /\ request_count' = 0
            /\ consecutive_429s' = DecayedCount
            /\ window_age' = 0
            /\ base_delay' = IF DecayedCount = 0 THEN LoweredBaseDelay ELSE base_delay
       ELSE UNCHANGED <<request_count, consecutive_429s, window_age, base_delay>>
    /\ current_delay' = base_delay' * (1 + consecutive_429s')

\* lines 1024-1025: the wrapped call answered
LimiterSuccess ==
    /\ request_count' = request_count + 1
    /\ streak' = << >>
    /\ ret' = "ok"
    /\ UNCHANGED <<consecutive_429s, base_delay>>

\* the 429 counted as a request of the window
LimiterRateLimitedCounting ==
    /\ consecutive_429s' = consecutive_429s + 1
    /\ base_delay' = RaisedBaseDelay
    /\ streak' = Append(streak, base_delay')
    /\ ret' = "429"
    /\ request_count' = request_count + 1

\* lines 1028-1032: the wrapped call raised a 429
LimiterRateLimited ==
    /\ consecutive_429s' = consecutive_429s + 1
    /\ base_delay' = RaisedBaseDelay
    /\ streak' = Append(streak, base_delay')
    /\ ret' = "429"
    /\ UNCHANGED request_count

\* line 1035: the wrapped call raised anything else
LimiterOtherError ==
    /\ streak' = << >>
    /\ ret' = "error"
    /\ UNCHANGED <<request_count, consecutive_429s, base_delay>>

\* the timers of the caller after an await of d seconds that completed
TimersAfter(d) ==
    /\ window_age' = WindowAfter(d)
    /\ fetch_timer' = Aged(fetch_timer, d, TermTimeout)
    /\ cat_timer' = Aged(cat_timer, d, CategoryTimeout)
    /\ batch_elapsed' = Aged(batch_elapsed, d, BatchCap)

\* line 1001: a call enters the limiter
Invoke ==
    /\ lpc = "idle"
    /\ pc \in {"driver", "fetch"}
    /\ pc = "fetch" => ret = "none"
    /\ LimiterEntry
    /\ lpc' = "sleep"
    /\ ret' = "none"
    /\ UNCHANGED <<streak, cancelled>>
    /\ UNCHANGED <<detVars, scanVars, schedVars>>
    /\ UNCHANGED <<mainVars, sendVars, restVars, provVars, cloudVars>>

\* line 1019: the adaptive sleep ends and the call goes to the executor
SleepDone(d) ==
    /\ lpc = "sleep"
    /\ AwaitEnd(d) = "done"
    /\ TimersAfter(d)
    /\ lpc' = "exec"
    /\ calls' = calls \cup {[what |-> call, limited |-> TRUE]}
    /\ UNCHANGED <<request_count, consecutive_429s, base_delay, current_delay,
                   ret, streak, cancelled>>
    /\ UNCHANGED detVars
    /\ UNCHANGED <<pc, index, attempt, call, abandoned, categories, current_index,
                   batch_number, terms_in_current_batch, breakouts, submitted>>
    /\ UNCHANGED <<mainVars, sendVars, restVars, provVars, cloudVars>>

ExecAnswered(t) ==
    /\ lpc = "exec"
    /\ AwaitEnd(t) = "done"
    /\ LimiterSuccess
    /\ TimersAfter(t)
    /\ lpc' = "idle"
    /\ UNCHANGED <<current_delay, cancelled>>
    /\ UNCHANGED detVars
    /\ UNCHANGED <<pc, index, attempt, call, calls, abandoned, categories, current_index,
                   batch_number, terms_in_current_batch, breakouts, submitted>>
    /\ UNCHANGED <<mainVars, sendVars, restVars, provVars, cloudVars>>

ExecRateLimited(t) ==
    /\ lpc = "exec"
    /\ AwaitEnd(t) = "done"
    /\ Len(streak) < MaxStreak
    /\ LimiterRateLimited
    /\ TimersAfter(t)
    /\ lpc' = "cooldown"
    /\ UNCHANGED <<current_delay, cancelled>>
    /\ UNCHANGED detVars
    /\ UNCHANGED <<pc, index, attempt, call, calls, abandoned, categories, current_index,
                   batch_number, terms_in_current_batch, breakouts, submitted>>
    /\ UNCHANGED <<mainVars, sendVars, restVars, provVars, cloudVars>>

ExecFailed(t) ==
    /\ lpc = "exec"
    /\ AwaitEnd(t) = "done"
    /\ LimiterOtherError
    /\ TimersAfter(t)
    /\ lpc' = "idle"
    /\ UNCHANGED <<current_delay, cancelled>>
    /\ UNCHANGED detVars
    /\ UNCHANGED <<pc, index, attempt, call, calls, abandoned, categories, current_index,
                   batch_number, terms_in_current_batch, breakouts, submitted>>
    /\ UNCHANGED <<mainVars, sendVars, restVars, provVars, cloudVars>>

\* the cooldown cut to half a window
CooldownDoneShort ==
    /\ lpc = "cooldown"
    /\ AwaitEnd(WindowSeconds \div 2) = "done"
    /\ TimersAfter(WindowSeconds \div 2)
    /\ lpc' = "idle"
    /\ UNCHANGED <<request_count, consecutive_429s, base_delay, current_delay,
                   ret, streak, cancelled>>
    /\ UNCHANGED detVars
    /\ UNCHANGED <<pc, index, attempt, call, calls, abandoned, categories, current_index,
                   batch_number, terms_in_current_batch, breakouts, submitted>>
    /\ UNCHANGED <<mainVars, sendVars, restVars, provVars, cloudVars>>

\* line 1033: await asyncio.sleep(self.cooldown_minutes * 60), then raise
CooldownDone ==
    /\ lpc = "cooldown"
    /\ AwaitEnd(cooldown_minutes * 60) = "done"
    /\ TimersAfter(cooldown_minutes * 60)
    /\ lpc' = "idle"
    /\ UNCHANGED <<request_count, consecutive_429s, base_delay, current_delay,
                   ret, streak, cancelled>>
    /\ UNCHANGED detVars
    /\ UNCHANGED <<pc, index, attempt, call, calls, abandoned, categories, current_index,
                   batch_number, terms_in_current_batch, breakouts, submitted>>
    /\ UNCHANGED <<mainVars, sendVars, restVars, provVars, cloudVars>>

----------------------------------------------------------------------------
\* The limiter driven by an arbitrary caller: calls follow one another
\* after any gap, and a call may be cancelled at any of its awaits.
Idle(gap) ==
    /\ pc = "driver"
    /\ lpc = "idle"
    /\ window_age < WindowSeconds
    /\ window_age' = WindowAfter(gap)
    /\ UNCHANGED <<request_count, consecutive_429s, base_delay, current_delay,
                   lpc, ret, streak, cancelled>>
    /\ UNCHANGED <<detVars, scanVars, schedVars>>
    /\ UNCHANGED <<mainVars, sendVars, restVars, provVars, cloudVars>>

\* a timeout of the caller cancels the call at the await it stands at; a
\* call cancelled before it answered ends the run of consecutive 429s
Cancel ==
    /\ pc = "driver"
    /\ lpc \in {"sleep", "exec", "cooldown"}
    /\ lpc' = "idle"
    /\ ret' = "none"
    /\ cancelled' = TRUE
    /\ streak' = IF lpc = "cooldown" THEN streak ELSE << >>
    /\ UNCHANGED <<request_count, consecutive_429s, base_delay, window_age, current_delay>>
    /\ UNCHANGED <<detVars, scanVars, schedVars>>
    /\ UNCHANGED <<mainVars, sendVars, restVars, provVars, cloudVars>>

NextLimiter ==
    \/ \E gap \in IdleGaps : Idle(gap)
    \/ Invoke
    \/ \E d \in JitterOf(current_delay) : SleepDone(d)
    \/ \E t \in ExecTimes : ExecAnswered(t)
    \/ \E t \in ExecTimes : ExecRateLimited(t)
    \/ \E t \in ExecTimes : ExecFailed(t)
    \/ CooldownDone
    \/ Cancel

InitLimiterOnly ==
    /\ InitData
    /\ InitLimiter
    /\ InitScanner
    /\ InitScheduler
    /\ InitProvider
    /\ InitMain
    /\ InitCloud
    /\ InitSend
    /\ categories = << >>
    /\ pc = "driver"

SpecLimiter == InitLimiterOnly /\ [][NextLimiter]_vars

----------------------------------------------------------------------------
\* scan_trends_with_notification under scan_all_categories

\* len(search_terms) of the category being scanned
TermCount == categories[current_index + 1]

\* lines 696-703: the breakouts of a returned result list
BreakoutsOf(res) ==
    [i \in 1..Len(res) |->
        [category |-> current_index + 1, term |-> res[i].term, peak |-> res[i].recent_peak]]

\* the locals of a finished loop iteration
ClearTerm ==
    /\ recent_data' = << >>
    /\ ninety_day_data' = NoNinety
    /\ historical_data' = << >>
    /\ attempt' = 0
    /\ call' = "none"
    /\ fetch_timer' = NoTimer

\* lines 690-715: scan_trends_with_notification returned res
CategoryDone(res) ==
    /\ breakouts' = breakouts \o BreakoutsOf(res)
    /\ terms_in_current_batch' = terms_in_current_batch + TermCount
    /\ current_index' = current_index + 1
    /\ pc' = "category"
    /\ index' = 0
    /\ results' = << >>
    /\ cat_timer' = NoTimer

\* lines 705-715: wait_for(..., timeout=300) raised TimeoutError; the
\* result list of the cancelled scan is lost
CategoryTimedOutRetrying ==
    /\ ClearTerm
    /\ UNCHANGED <<breakouts, current_index>>
    /\ terms_in_current_batch' = terms_in_current_batch + TermCount
    /\ pc' = "category"
    /\ index' = 0
    /\ results' = << >>
    /\ cat_timer' = NoTimer

\* the timeout handled with the category after it given up as well
CategoryTimedOutSkippingNext ==
    /\ ClearTerm
    /\ UNCHANGED breakouts
    /\ terms_in_current_batch' = terms_in_current_batch + TermCount
    /\ current_index' = current_index + 2
    /\ pc' = "category"
    /\ index' = 0
    /\ results' = << >>
    /\ cat_timer' = NoTimer

CategoryTimedOut ==
    /\ ClearTerm
    /\ UNCHANGED breakouts
    /\ terms_in_current_batch' = terms_in_current_batch + TermCount
    /\ current_index' = current_index + 1
    /\ pc' = "category"
    /\ index' = 0
    /\ results' = << >>
    /\ cat_timer' = NoTimer

\* the for loop with a term stepped over
NextTermSkipping(res, t) ==
    /\ ClearTerm
    /\ IF index < TermCount
       THEN /\ index' = index + 2
            /\ pc' = "term"
            /\ results' = res
            /\ cat_timer' = Aged(cat_timer, t, CategoryTimeout)
            /\ UNCHANGED <<breakouts, terms_in_current_batch, current_index>>
       ELSE CategoryDone(res)

\* the for loop goes to its next term t seconds later, or ends and
\* returns res
NextTerm(res, t) ==
    /\ ClearTerm
    /\ IF index < TermCount
       THEN /\ index' = index + 1
            /\ pc' = "term"
            /\ results' = res
            /\ cat_timer' = Aged(cat_timer, t, CategoryTimeout)
            /\ UNCHANGED <<breakouts, terms_in_current_batch, current_index>>
       ELSE CategoryDone(res)

\* an await inside get_recent_trend_data is cancelled by one of the two
\* wait_for timeouts after t seconds
Interrupted(end, t) ==
    /\ window_age' = WindowAfter(t)
    /\ batch_elapsed' = Aged(batch_elapsed, t, BatchCap)
    /\ lpc' = "idle"
    /\ ret' = "none"
    /\ cancelled' = TRUE
    /\ streak' = IF lpc \in {"sleep", "exec"} THEN << >> ELSE streak
    /\ abandoned' = IF lpc = "exec" THEN abandoned + 1 ELSE abandoned
    /\ IF end = "cat_timeout"
       THEN /\ CategoryTimedOut
            /\ outcome' = "category_timeout"
       ELSE /\ NextTerm(results, t)
            /\ outcome' = "fetch_timeout"
    /\ UNCHANGED <<request_count, consecutive_429s, base_delay, current_delay>>
    /\ UNCHANGED <<alerts, calls, categories, batch_number, submitted>>

\* lines 803-844: the loop body starts and wraps the fetch in a timeout
TermStart ==
    /\ pc = "term"
    /\ pc' = "fetch"
    /\ outcome' = "pending"
    /\ fetch_timer' = 0
    /\ attempt' = 0
    /\ call' = "build_payload"
    /\ UNCHANGED <<index, cat_timer, calls, abandoned>>
    /\ UNCHANGED <<recent_data, ninety_day_data, historical_data, results, alerts>>
    /\ UNCHANGED <<limVars, schedVars>>
    /\ UNCHANGED <<mainVars, sendVars, restVars, provVars, cloudVars>>

\* lines 1065-1073: build_payload answered, interest_over_time is next
FetchSecondCall ==
    /\ pc = "fetch" /\ lpc = "idle" /\ ret = "ok"
    /\ call = "build_payload"
    /\ call' = "interest_over_time"
    /\ ret' = "none"
    /\ UNCHANGED <<pc, index, attempt, fetch_timer, cat_timer, calls, abandoned>>
    /\ UNCHANGED <<request_count, consecutive_429s, base_delay, window_age,
                   current_delay, lpc, streak, cancelled>>
    /\ UNCHANGED <<detVars, schedVars>>
    /\ UNCHANGED <<mainVars, sendVars, restVars, provVars, cloudVars>>

\* lines 1073-1129: interest_over_time answered; the rows of today (or
\* yesterday) are returned, None when there are none
FetchReturns(rows) ==
    /\ pc = "fetch" /\ lpc = "idle" /\ ret = "ok"
    /\ call = "interest_over_time"
    /\ recent_data' = rows
    /\ pc' = "process"
    /\ fetch_timer' = NoTimer
    /\ call' = "none"
    /\ ret' = "none"
    /\ UNCHANGED <<index, attempt, cat_timer, calls, abandoned>>
    /\ UNCHANGED <<request_count, consecutive_429s, base_delay, window_age,
                   current_delay, lpc, streak, cancelled>>
    /\ UNCHANGED <<ninety_day_data, historical_data, results, alerts, outcome>>
    /\ UNCHANGED schedVars
    /\ UNCHANGED <<mainVars, sendVars, restVars, provVars, cloudVars>>

\* lines 1131-1136: a call raised; retry, or return None after the last attempt
FetchRaised ==
    /\ pc = "fetch" /\ lpc = "idle" /\ ret \in {"429", "error"}
    /\ ret' = "none"
    /\ IF attempt < max_retries - 1
       THEN /\ attempt' = attempt + 1
            /\ pc' = "backoff"
            /\ UNCHANGED <<recent_data, fetch_timer, call>>
       ELSE /\ recent_data' = << >>
            /\ pc' = "process"
            /\ fetch_timer' = NoTimer
            /\ call' = "none"
            /\ UNCHANGED attempt
    /\ UNCHANGED <<index, cat_timer, calls, abandoned>>
    /\ UNCHANGED <<request_count, consecutive_429s, base_delay, window_age,
                   current_delay, lpc, streak, cancelled>>
    /\ UNCHANGED <<ninety_day_data, historical_data, results, alerts, outcome>>
    /\ UNCHANGED schedVars
    /\ UNCHANGED <<mainVars, sendVars, restVars, provVars, cloudVars>>

\* lines 1046-1062 of the retry with the NameError of TrendReq(...) passed
\* on to the caller instead of caught at line 1131
BackoffUncaught ==
    /\ pc = "backoff"
    /\ LET d == RetryBaseDelay * 2^attempt
       IN  IF AwaitEnd(d) = "done"
           THEN /\ TimersAfter(d)
                /\ pc' = "fetch_raised"
                /\ UNCHANGED <<recent_data, call, attempt>>
                /\ UNCHANGED <<index, calls, abandoned>>
                /\ UNCHANGED <<request_count, consecutive_429s, base_delay, current_delay,
                               lpc, ret, streak, cancelled>>
                /\ UNCHANGED <<ninety_day_data, historical_data, results, alerts, outcome>>
                /\ UNCHANGED <<categories, current_index, batch_number,
                               terms_in_current_batch, breakouts, submitted>>
           ELSE Interrupted(AwaitEnd(d), AwaitTime(d))
    /\ UNCHANGED <<mainVars, sendVars, restVars, provVars, cloudVars>>

\* the retry with a backoff of 60 seconds and the client set up anew, so
\* that the request is issued again
BackoffShort ==
    /\ pc = "backoff"
    /\ LET d == RetryBaseDelay
       IN  IF AwaitEnd(d) = "done"
           THEN /\ TimersAfter(d)
                /\ pc' = "fetch"
                /\ call' = "build_payload"
                /\ UNCHANGED <<attempt, recent_data>>
                /\ UNCHANGED <<index, calls, abandoned>>
                /\ UNCHANGED <<request_count, consecutive_429s, base_delay, current_delay,
                               lpc, ret, streak, cancelled>>
                /\ UNCHANGED <<ninety_day_data, historical_data, results, alerts, outcome>>
                /\ UNCHANGED <<categories, current_index, batch_number,
                               terms_in_current_batch, breakouts, submitted>>
           ELSE Interrupted(AwaitEnd(d), AwaitTime(d))
    /\ UNCHANGED <<mainVars, sendVars, restVars, provVars, cloudVars>>

\* lines 1046-1062 of the retry: the sleep of 60 * 2 ** attempt seconds.
\* When it completes, TrendReq(...) raises NameError (the name is imported
\* only inside initialize_components), which the except clause of the loop
\* catches; when a wait_for expires first, the fetch is cancelled
Backoff ==
    /\ pc = "backoff"
    /\ LET d == RetryBaseDelay * 2^attempt
       IN  IF AwaitEnd(d) = "done"
           THEN /\ TimersAfter(d)
                /\ IF attempt < max_retries - 1
                   THEN /\ attempt' = attempt + 1
                        /\ UNCHANGED <<pc, recent_data, call>>
                   ELSE /\ recent_data' = << >>
                        /\ pc' = "process"
                        /\ call' = "none"
                        /\ UNCHANGED attempt
                /\ UNCHANGED <<index, calls, abandoned>>
                /\ UNCHANGED <<request_count, consecutive_429s, base_delay, current_delay,
                               lpc, ret, streak, cancelled>>
                /\ UNCHANGED <<ninety_day_data, historical_data, results, alerts, outcome>>
                /\ UNCHANGED <<categories, current_index, batch_number,
                               terms_in_current_batch, breakouts, submitted>>
           ELSE Interrupted(AwaitEnd(d), AwaitTime(d))
    /\ UNCHANGED <<mainVars, sendVars, restVars, provVars, cloudVars>>

\* the seconds the limiter await the fetch stands at may take
FetchAwaits ==
    IF lpc = "sleep" THEN ShortestJitter(current_delay)
    ELSE IF lpc = "exec" THEN ExecTimes
    ELSE IF lpc = "cooldown" THEN {cooldown_minutes * 60}
    ELSE {}

\* lines 848-852 and 705-706: a wait_for timeout cancels the fetch at the
\* await of make_trends_request it stands at; a call that is in the
\* executor keeps running there
FetchCutOff ==
    /\ pc = "fetch"
    /\ lpc = "exec" => abandoned < MaxAbandoned
    /\ \E d \in FetchAwaits :
          /\ AwaitEnd(d) # "done"
          /\ Interrupted(AwaitEnd(d), AwaitTime(d))
    /\ UNCHANGED <<mainVars, sendVars, restVars, provVars, cloudVars>>

\* the executor thread of a cancelled call ends; its answer is dropped
ThreadFinished ==
    /\ abandoned > 0
    /\ pc \notin {"cycle_done", "cycle_failed"}
    /\ abandoned' = abandoned - 1
    /\ UNCHANGED <<pc, index, attempt, call, fetch_timer, cat_timer, calls>>
    /\ UNCHANGED <<detVars, limVars, schedVars>>
    /\ UNCHANGED <<mainVars, sendVars, restVars, provVars, cloudVars>>

\* lines 870-882 and 975-978 without the None test of lines 864-867:
\* recent_data[term] raises on None and the term ends as a processing error
SkipTermUnchecked ==
    /\ pc = "process"
    /\ IF recent_data = << >> THEN TRUE ELSE BelowThreshold(recent_data)
    /\ outcome' = IF recent_data = << >> THEN "processing_error" ELSE "below_threshold"
    /\ NextTerm(results, 0)
    /\ UNCHANGED <<alerts, calls, abandoned>>
    /\ UNCHANGED limVars
    /\ UNCHANGED <<categories, batch_number, batch_elapsed, submitted>>
    /\ UNCHANGED <<mainVars, sendVars, restVars, provVars, cloudVars>>

\* lines 864-882: no data, or a peak below 90: `continue`
SkipTerm ==
    /\ pc = "process"
    /\ IF recent_data = << >> THEN TRUE ELSE BelowThreshold(recent_data)
    /\ outcome' = IF recent_data = << >> THEN "no_data" ELSE "below_threshold"
    /\ NextTerm(results, 0)
    /\ UNCHANGED <<alerts, calls, abandoned>>
    /\ UNCHANGED limVars
    /\ UNCHANGED <<categories, batch_number, batch_elapsed, submitted>>
    /\ UNCHANGED <<mainVars, sendVars, restVars, provVars, cloudVars>>

\* the 90-day context fetch with its exception passed on to
\* scan_all_categories, which gives the category up (lines 717-720)
ContextFetchRaising(ninety) ==
    /\ pc = "process"
    /\ recent_data # << >> /\ ~BelowThreshold(recent_data)
    /\ calls' = calls \cup {[what |-> "ninety_day", limited |-> FALSE]}
    /\ IF ContextCheck(ninety) = "pass"
       THEN /\ ninety_day_data' = ninety
            /\ pc' = "historical"
            /\ attempt' = 0
            /\ UNCHANGED <<recent_data, historical_data, results, outcome>>
            /\ UNCHANGED <<index, call, fetch_timer, cat_timer>>
            /\ UNCHANGED <<current_index, terms_in_current_batch, breakouts>>
       ELSE IF ContextCheck(ninety) = "error"
       THEN /\ outcome' = "context_error"
            /\ ClearTerm
            /\ current_index' = current_index + 1
            /\ pc' = "category"
            /\ index' = 0
            /\ results' = << >>
            /\ cat_timer' = NoTimer
            /\ UNCHANGED <<terms_in_current_batch, breakouts>>
       ELSE /\ outcome' = "context_" \o ContextCheck(ninety)
            /\ NextTerm(results, 0)
    /\ UNCHANGED <<alerts, abandoned>>
    /\ UNCHANGED limVars
    /\ UNCHANGED <<categories, batch_number, batch_elapsed, submitted>>
    /\ UNCHANGED <<mainVars, sendVars, restVars, provVars, cloudVars>>

\* lines 884-916: the 90-day context fetch, issued on self.pytrends
\* directly, and the check of its answer
ContextFetch(ninety) ==
    /\ pc = "process"
    /\ recent_data # << >> /\ ~BelowThreshold(recent_data)
    /\ calls' = calls \cup {[what |-> "ninety_day", limited |-> FALSE]}
    /\ IF ContextCheck(ninety) = "pass"
       THEN /\ ninety_day_data' = ninety
            /\ pc' = "historical"
            /\ attempt' = 0
            /\ UNCHANGED <<recent_data, historical_data, results, outcome>>
            /\ UNCHANGED <<index, call, fetch_timer, cat_timer>>
            /\ UNCHANGED <<current_index, terms_in_current_batch, breakouts>>
       ELSE /\ outcome' = "context_" \o ContextCheck(ninety)
            /\ NextTerm(results, 0)
    /\ UNCHANGED <<alerts, abandoned>>
    /\ UNCHANGED limVars
    /\ UNCHANGED <<categories, batch_number, batch_elapsed, submitted>>
    /\ UNCHANGED <<mainVars, sendVars, restVars, provVars, cloudVars>>

\* the message handed to send_telegram_alert for a breakout
BreakoutAlert(category, term) == [kind |-> "breakout", category |-> category, term |-> term]

\* the end-of-cycle message
SummaryAlert(found) == [kind |-> "summary", entries |-> found]

\* lines 1187-1195: the sleeps of one attempt of get_historical_trend_data
HistAwaits ==
    {(IF attempt > 0 THEN RetryBaseDelay * 2^attempt ELSE 0) + j : j \in HistJitter}

\* lines 1197-1198: the historical fetch, issued on self.pytrends directly
HistCall == [what |-> "historical", limited |-> FALSE]

\* lines 917-973: the decision on the fetched history hist, then the
\* append, the message (format_breakout_message fetches 90 days on
\* self.pytrends directly) and the alert
Decide(hist, t) ==
    LET o == ProcessOutcome(recent_data, ninety_day_data, hist)
    IN  /\ outcome' = o
        /\ window_age' = WindowAfter(t)
        /\ batch_elapsed' = Aged(batch_elapsed, t, BatchCap)
        /\ IF o = "suppressed"
           THEN /\ NextTerm(results, t)
                /\ calls' = calls \cup {HistCall}
                /\ UNCHANGED alerts
           ELSE /\ pc' = IF o = "breakout" THEN "alert" ELSE "pause"
                /\ historical_data' = hist
                /\ cat_timer' = Aged(cat_timer, t, CategoryTimeout)
                /\ results' = IF o = "breakout"
                              THEN Append(results, Analysis(index, recent_data, hist))
                              ELSE results
                /\ UNCHANGED alerts
                /\ calls' = IF o = "breakout"
                            THEN calls \cup {HistCall, [what |-> "format", limited |-> FALSE]}
                            ELSE calls \cup {HistCall}
                /\ UNCHANGED <<recent_data, ninety_day_data, index, attempt, call, fetch_timer>>
                /\ UNCHANGED <<current_index, terms_in_current_batch, breakouts>>
        /\ UNCHANGED <<request_count, consecutive_429s, base_delay, current_delay,
                       lpc, ret, streak, cancelled>>
        /\ UNCHANGED <<abandoned, categories, batch_number, submitted>>

\* lines 1197-1202: the historical fetch answered with rows
HistAnswered(d, hist) ==
    /\ pc = "historical"
    /\ AwaitEnd(d) = "done"
    /\ Decide(hist, d)
    /\ UNCHANGED <<mainVars, sendVars, restVars, provVars, cloudVars>>

\* lines 1204-1213: the historical fetch raised something other than a
\* 429: get_historical_trend_data returns None
HistFailed(d) ==
    /\ pc = "historical"
    /\ AwaitEnd(d) = "done"
    /\ Decide(<< >>, d)
    /\ UNCHANGED <<mainVars, sendVars, restVars, provVars, cloudVars>>

\* lines 1200-1208: a 429, or an answer without rows: the next attempt, or
\* None after the last one
HistRetry(d) ==
    /\ pc = "historical"
    /\ AwaitEnd(d) = "done"
    /\ IF attempt < max_retries - 1
       THEN /\ attempt' = attempt + 1
            /\ window_age' = WindowAfter(d)
            /\ batch_elapsed' = Aged(batch_elapsed, d, BatchCap)
            /\ cat_timer' = Aged(cat_timer, d, CategoryTimeout)
            /\ calls' = calls \cup {HistCall}
            /\ UNCHANGED <<pc, index, call, fetch_timer, abandoned>>
            /\ UNCHANGED detVars
            /\ UNCHANGED <<request_count, consecutive_429s, base_delay, current_delay,
                           lpc, ret, streak, cancelled>>
            /\ UNCHANGED <<categories, current_index, batch_number,
                           terms_in_current_batch, breakouts, submitted>>
       ELSE Decide(<< >>, d)
    /\ UNCHANGED <<mainVars, sendVars, restVars, provVars, cloudVars>>

\* lines 705-715: the category's wait_for expires after t seconds of an
\* await outside the fetch
CategoryCutOff(t) ==
    /\ window_age' = WindowAfter(t)
    /\ batch_elapsed' = Aged(batch_elapsed, t, BatchCap)
    /\ CategoryTimedOut
    /\ outcome' = "category_timeout"
    /\ UNCHANGED <<request_count, consecutive_429s, base_delay, current_delay,
                   lpc, ret, streak, cancelled>>
    /\ UNCHANGED <<alerts, calls, abandoned, categories, batch_number, submitted>>

\* the category times out during the sleeps of the historical fetch
HistCutOff ==
    /\ pc = "historical"
    /\ \E d \in HistAwaits :
          /\ AwaitEnd(d) # "done"
          /\ CategoryCutOff(AwaitTime(d))
    /\ UNCHANGED <<mainVars, sendVars, restVars, provVars, cloudVars>>

\* line 971: await self.send_telegram_alert(message) for the breakout just
\* appended to results; the sends take d seconds, and the category's
\* wait_for may expire while they are awaited
DispatchAlert(d) ==
    /\ pc = "alert"
    /\ IF AwaitEnd(d) = "done"
       THEN /\ alerts' = Append(alerts, BreakoutAlert(current_index + 1, index))
            /\ pc' = "pause"
            /\ window_age' = WindowAfter(d)
            /\ batch_elapsed' = Aged(batch_elapsed, d, BatchCap)
            /\ cat_timer' = Aged(cat_timer, d, CategoryTimeout)
            /\ UNCHANGED <<request_count, consecutive_429s, base_delay, current_delay,
                           lpc, ret, streak, cancelled>>
            /\ UNCHANGED <<recent_data, ninety_day_data, historical_data, results,
                           outcome, index, attempt, call, fetch_timer>>
            /\ UNCHANGED <<current_index, terms_in_current_batch, breakouts>>
            /\ UNCHANGED <<calls, abandoned, categories, batch_number, submitted>>
       ELSE CategoryCutOff(AwaitTime(d))
    /\ UNCHANGED <<mainVars, sendVars, restVars, provVars, cloudVars>>

\* line 988: await asyncio.sleep(20) after a term that ran to the end of
\* its processing block
Pause ==
    /\ pc = "pause"
    /\ IF AwaitEnd(TermPause) = "done"
       THEN /\ window_age' = WindowAfter(TermPause)
            /\ batch_elapsed' = Aged(batch_elapsed, TermPause, BatchCap)
            /\ NextTerm(results, TermPause)
            /\ UNCHANGED <<request_count, consecutive_429s, base_delay, current_delay,
                           lpc, ret, streak, cancelled>>
            /\ UNCHANGED <<alerts, outcome, calls, abandoned, categories,
                           batch_number, submitted>>
       ELSE CategoryCutOff(AwaitTime(TermPause))
    /\ UNCHANGED <<mainVars, sendVars, restVars, provVars, cloudVars>>

----------------------------------------------------------------------------
\* scan_all_categories

\* a batch whose first look at the clock finds the 15 minutes used up
BeginBatchExpired ==
    /\ pc = "batch_start"
    /\ current_index < Len(categories)
    /\ batch_elapsed' = BatchSeconds
    /\ terms_in_current_batch' = 0
    /\ pc' = "category"
    /\ UNCHANGED <<categories, current_index, batch_number, breakouts, submitted>>
    /\ UNCHANGED <<index, attempt, call, fetch_timer, cat_timer, calls, abandoned>>
    /\ UNCHANGED <<detVars, limVars>>
    /\ UNCHANGED <<mainVars, sendVars, restVars, provVars, cloudVars>>

\* lines 654-657: the outer loop starts a batch
BeginBatch ==
    /\ pc = "batch_start"
    /\ current_index < Len(categories)
    /\ batch_elapsed' = 0
    /\ terms_in_current_batch' = 0
    /\ pc' = "category"
    /\ UNCHANGED <<categories, current_index, batch_number, breakouts, submitted>>
    /\ UNCHANGED <<index, attempt, call, fetch_timer, cat_timer, calls, abandoned>>
    /\ UNCHANGED <<detVars, limVars>>
    /\ UNCHANGED <<mainVars, sendVars, restVars, provVars, cloudVars>>

\* lines 660-669: the inner loop may take another category: there is one
\* left, the test-mode cap on terms is not reached and the batch has not
\* lasted 15 minutes
BatchOpen ==
    /\ current_index < Len(categories)
    /\ ~(IS_TEST_MODE /\ terms_in_current_batch >= TEST_BATCH_SIZE)
    /\ batch_elapsed < BatchSeconds

\* lines 677-681: a category without search terms is stepped over
SkipCategory ==
    /\ pc = "category"
    /\ BatchOpen
    /\ TermCount = 0
    /\ current_index' = current_index + 1
    /\ UNCHANGED <<categories, batch_number, terms_in_current_batch, batch_elapsed,
                   breakouts, submitted>>
    /\ UNCHANGED <<detVars, limVars, scanVars>>
    /\ UNCHANGED <<mainVars, sendVars, restVars, provVars, cloudVars>>

\* lines 671-688: the category is handed to scan_trends_with_notification
\* under a timeout of 300 seconds
SubmitCategory ==
    /\ pc = "category"
    /\ BatchOpen
    /\ TermCount > 0
    /\ submitted' = Append(submitted, current_index + 1)
    /\ pc' = "term"
    /\ index' = 1
    /\ results' = << >>
    /\ cat_timer' = 0
    /\ UNCHANGED <<categories, current_index, batch_number, terms_in_current_batch,
                   batch_elapsed, breakouts>>
    /\ UNCHANGED <<attempt, call, fetch_timer, calls, abandoned>>
    /\ UNCHANGED <<recent_data, ninety_day_data, historical_data, alerts, outcome>>
    /\ UNCHANGED limVars
    /\ UNCHANGED <<mainVars, sendVars, restVars, provVars, cloudVars>>

\* lines 722-738: the batch is over; the batch summary divides by
\* terms_in_current_batch and raises ZeroDivisionError when the batch
\* processed no term, which ends scan_all_categories; otherwise the rest
\* period starts
BatchComplete ==
    /\ pc = "category"
    /\ ~BatchOpen
    /\ pc' = IF terms_in_current_batch = 0 THEN "cycle_failed" ELSE "rest"
    /\ rest_elapsed' = IF terms_in_current_batch = 0 THEN NoTimer ELSE 0
    /\ UNCHANGED <<index, attempt, call, fetch_timer, cat_timer, calls, abandoned>>
    /\ UNCHANGED <<detVars, limVars, schedVars>>
    /\ UNCHANGED <<mainVars, sendVars, provVars, cloudVars>>

\* lines 739-745: one sleep of 30 seconds of the rest period, and the
\* heartbeat logged after it
RestSleep ==
    /\ pc = "rest"
    /\ rest_elapsed < RestSeconds
    /\ rest_elapsed' = rest_elapsed + RestHeartbeat
    /\ window_age' = WindowAfter(RestHeartbeat)
    /\ UNCHANGED <<request_count, consecutive_429s, base_delay, current_delay,
                   lpc, ret, streak, cancelled>>
    /\ UNCHANGED <<detVars, scanVars, schedVars>>
    /\ UNCHANGED <<mainVars, sendVars, provVars, cloudVars>>

\* the rest period ended by the first look at the clock
RestPeriodUnguarded ==
    /\ pc = "rest"
    /\ rest_elapsed' = NoTimer
    /\ batch_number' = batch_number + 1
    /\ batch_elapsed' = NoTimer
    /\ pc' = "batch_start"
    /\ UNCHANGED <<categories, current_index, terms_in_current_batch, breakouts, submitted>>
    /\ UNCHANGED <<index, attempt, call, fetch_timer, cat_timer, calls, abandoned>>
    /\ UNCHANGED <<detVars, limVars>>
    /\ UNCHANGED <<mainVars, sendVars, provVars, cloudVars>>

\* lines 739 and 747: the rest period has lasted 120 seconds; the next
\* batch
RestPeriod ==
    /\ pc = "rest"
    /\ rest_elapsed >= RestSeconds
    /\ rest_elapsed' = NoTimer
    /\ batch_number' = batch_number + 1
    /\ batch_elapsed' = NoTimer
    /\ pc' = "batch_start"
    /\ UNCHANGED <<categories, current_index, terms_in_current_batch, breakouts, submitted>>
    /\ UNCHANGED <<index, attempt, call, fetch_timer, cat_timer, calls, abandoned>>
    /\ UNCHANGED <<detVars, limVars>>
    /\ UNCHANGED <<mainVars, sendVars, provVars, cloudVars>>

\* the end of the cycle with a summary only when there were breakouts
SendSummaryOnlyBreakouts ==
    /\ pc = "batch_start"
    /\ current_index >= Len(categories)
    /\ alerts' = IF breakouts = << >> THEN alerts
                 ELSE Append(alerts, SummaryAlert(breakouts))
    /\ pc' = "cycle_done"
    /\ UNCHANGED <<recent_data, ninety_day_data, historical_data, results, outcome>>
    /\ UNCHANGED <<index, attempt, call, fetch_timer, cat_timer, calls, abandoned>>
    /\ UNCHANGED <<limVars, schedVars>>
    /\ UNCHANGED <<mainVars, sendVars, restVars, provVars, cloudVars>>

\* lines 749-791: the end-of-cycle summary, sent whether or not there
\* were breakouts
SendSummary ==
    /\ pc = "batch_start"
    /\ current_index >= Len(categories)
    /\ alerts' = Append(alerts, SummaryAlert(breakouts))
    /\ pc' = "cycle_done"
    /\ UNCHANGED <<recent_data, ninety_day_data, historical_data, results, outcome>>
    /\ UNCHANGED <<index, attempt, call, fetch_timer, cat_timer, calls, abandoned>>
    /\ UNCHANGED <<limVars, schedVars>>
    /\ UNCHANGED <<mainVars, sendVars, restVars, provVars, cloudVars>>

----------------------------------------------------------------------------
\* One scan cycle over a catalog
Init ==
    /\ InitData
    /\ InitLimiter
    /\ InitScanner
    /\ InitScheduler
    /\ InitProvider
    /\ InitMain
    /\ InitCloud
    /\ InitSend
    /\ categories \in Catalogs
    /\ pc = "batch_start"

Next ==
    \/ BeginBatch
    \/ SkipCategory
    \/ SubmitCategory
    \/ BatchComplete
    \/ RestSleep
    \/ RestPeriod
    \/ SendSummary
    \/ TermStart
    \/ Invoke
    \/ \E d \in ShortestJitter(current_delay) : SleepDone(d)
    \/ \E t \in ExecTimes : ExecAnswered(t)
    \/ \E t \in ExecTimes : ExecRateLimited(t)
    \/ \E t \in ExecTimes : ExecFailed(t)
    \/ CooldownDone
    \/ FetchSecondCall
    \/ \E rows \in FetchedRecent : FetchReturns(rows)
    \/ FetchRaised
    \/ Backoff
    \/ FetchCutOff
    \/ ThreadFinished
    \/ SkipTerm
    \/ \E ninety \in FetchedNinety : ContextFetch(ninety)
    \/ \E d \in HistAwaits, hist \in FetchedHist : HistAnswered(d, hist)
    \/ \E d \in HistAwaits : HistFailed(d)
    \/ \E d \in HistAwaits : HistRetry(d)
    \/ HistCutOff
    \/ \E d \in ExecTimes : DispatchAlert(d)
    \/ Pause

Spec == Init /\ [][Next]_vars

\* The same cycle with every step that can be taken eventually taken: the
\* event loop runs the scanning task, and every await of the cycle is a
\* sleep, a timeout or a call that ends
SpecLive == Spec /\ WF_vars(Next)

----------------------------------------------------------------------------
\* main and run_continuous_scan: the process around the scan cycles. A
\* cycle is taken as a whole here: it returns after some time or it raises.

\* seconds a cycle that returned may have taken: a short one, a longer
\* one, and one that outlasts the scan interval
CycleTimes == {600, 1340, SCAN_INTERVAL_HOURS * 3600 + 600}

\* line 598: sleep_seconds = max(0, SCAN_INTERVAL_HOURS * 3600 - time_elapsed)
SleepSeconds(elapsed) == Max(0, SCAN_INTERVAL_HOURS * 3600 - elapsed)

\* line 606: intervals = int(sleep_seconds // sleep_interval)
Intervals(elapsed) == SleepSeconds(elapsed) \div sleep_interval

\* the wait without its last, shorter sleep
RemainingSecondsDropped(elapsed) == 0 * elapsed

\* line 618: remaining_seconds = sleep_seconds % sleep_interval
RemainingSeconds(elapsed) == SleepSeconds(elapsed) % sleep_interval

\* where the task stands inside run_continuous_scan
RunStates == {"cycle_start", "cycle_failed", "cycle_sleep"}

\* the variables the process leaves alone outside a cycle
RunFrame ==
    /\ UNCHANGED <<request_count, consecutive_429s, base_delay, current_delay,
                   lpc, ret, streak, cancelled>>
    /\ UNCHANGED <<index, attempt, call, fetch_timer, cat_timer, calls, abandoned>>
    /\ UNCHANGED <<detVars, schedVars, sendVars, restVars, provVars, cloudVars>>

\* lines 1303-1312: main builds the scanner and start_app brings the
\* messaging client up
StartAppSucceeds ==
    /\ pc = "main"
    /\ restart_count' = restart_count + 1
    /\ pc' = "cycle_start"
    /\ UNCHANGED <<time_elapsed, interval, slept, window_age>>
    /\ RunFrame

\* lines 566-579: the bot token is missing or the client fails to
\* initialize; start_app logs the exception and raises it again
StartAppFails(fault) ==
    /\ pc = "main"
    /\ restart_count < MaxRestarts
    /\ fault \in {"missing_token", "initialize_failed"}
    /\ restart_count' = restart_count + 1
    /\ pc' = "start_failed"
    /\ UNCHANGED <<time_elapsed, interval, slept, window_age>>
    /\ RunFrame

\* lines 1316-1320: main catches the exception, sleeps 60 seconds and
\* goes round its loop again
MainRestart ==
    /\ pc = "start_failed"
    /\ window_age' = WindowAfter(RestartSeconds)
    /\ pc' = "main"
    /\ UNCHANGED <<restart_count, time_elapsed, interval, slept>>
    /\ RunFrame

\* lines 586-595: the cycle ran and scan_all_categories returned
CycleReturns(elapsed) ==
    /\ pc = "cycle_start"
    /\ time_elapsed' = elapsed
    /\ interval' = 0
    /\ slept' = 0
    /\ window_age' = WindowAfter(elapsed)
    /\ pc' = "cycle_sleep"
    /\ UNCHANGED restart_count
    /\ RunFrame

\* lines 591-594: initialize_components or scan_all_categories raised
CycleRaises ==
    /\ pc = "cycle_start"
    /\ pc' = "cycle_failed"
    /\ UNCHANGED <<restart_count, time_elapsed, interval, slept, window_age>>
    /\ RunFrame

\* lines 624-628 with the exception passed on instead of handled
CycleRestartPropagating ==
    /\ pc = "cycle_failed"
    /\ pc' = "start_failed"
    /\ UNCHANGED <<restart_count, time_elapsed, interval, slept, window_age>>
    /\ RunFrame

\* lines 624-628: the exception is logged, 60 seconds pass, `continue`
CycleRestart ==
    /\ pc = "cycle_failed"
    /\ window_age' = WindowAfter(RestartSeconds)
    /\ pc' = "cycle_start"
    /\ UNCHANGED <<restart_count, time_elapsed, interval, slept>>
    /\ RunFrame

\* lines 608-615: one 15-minute sleep of the wait for the next cycle
SleepInterval ==
    /\ pc = "cycle_sleep"
    /\ interval < Intervals(time_elapsed)
    /\ interval' = interval + 1
    /\ slept' = slept + sleep_interval
    /\ window_age' = WindowAfter(sleep_interval)
    /\ UNCHANGED <<pc, restart_count, time_elapsed>>
    /\ RunFrame

\* lines 617-620 and 585: the remaining seconds, then the next cycle
NextCycle ==
    /\ pc = "cycle_sleep"
    /\ interval = Intervals(time_elapsed)
    /\ slept' = slept + RemainingSeconds(time_elapsed)
    /\ window_age' = WindowAfter(RemainingSeconds(time_elapsed))
    /\ pc' = "cycle_start"
    /\ UNCHANGED <<restart_count, time_elapsed, interval>>
    /\ RunFrame

InitRun ==
    /\ InitData
    /\ InitLimiter
    /\ InitScanner
    /\ InitScheduler
    /\ InitProvider
    /\ InitMain
    /\ InitCloud
    /\ InitSend
    /\ categories = << >>
    /\ pc = "main"

NextRun ==
    \/ StartAppSucceeds
    \/ \E fault \in {"missing_token", "initialize_failed"} : StartAppFails(fault)
    \/ MainRestart
    \/ \E elapsed \in CycleTimes : CycleReturns(elapsed)
    \/ CycleRaises
    \/ CycleRestart
    \/ SleepInterval
    \/ NextCycle

\* every sleep ends and every step of the loop is taken
SpecRun == InitRun /\ [][NextRun]_vars /\ WF_vars(NextRun)

----------------------------------------------------------------------------
\* cloud_scheduler.py: scheduler and run_scanner around main. The clock is
\* read in whole seconds since midnight UTC.

\* cloud_scheduler.py lines 21-22
SCAN_HOUR == 10
SCAN_MINUTE == 15

\* timedelta(days=1) in seconds
DaySeconds == 24 * 3600

\* line 38: now.replace(hour=SCAN_HOUR, minute=SCAN_MINUTE, second=0, ...)
TargetToday == SCAN_HOUR * 3600 + SCAN_MINUTE * 60

\* lines 41-45: the target moves to tomorrow when it has passed;
\* wait_seconds = (target - now).total_seconds()
WaitSeconds(t) ==
    IF t >= TargetToday THEN TargetToday + DaySeconds - t ELSE TargetToday - t

\* how often run_scanner is counted as started
MaxStarts == 2

\* times of day at which the scheduler may be started or may get control
\* back: midnight, around the target, late in the day
ClockTimes == {0, 3600, TargetToday - 1, TargetToday, TargetToday + 1,
               DaySeconds - 3600, DaySeconds - 1}

\* seconds by which asyncio.sleep may overrun
Overruns == {0, 1}

\* where main stands while it runs
MainStates == {"main", "start_failed"} \cup RunStates

\* the variables the scheduler leaves alone
CloudFrame ==
    /\ UNCHANGED <<index, attempt, call, fetch_timer, cat_timer, calls, abandoned>>
    /\ UNCHANGED <<time_elapsed, interval, slept>>
    /\ UNCHANGED <<detVars, limVars, schedVars, sendVars, restVars, provVars>>

\* lines 36-49: the next target and the wait until it
ComputeWait ==
    /\ spc = "loop"
    /\ wait_seconds' = WaitSeconds(now)
    /\ spc' = "sleep"
    /\ UNCHANGED <<pc, restart_count, now, starts>>
    /\ CloudFrame

\* lines 52-55, 24-29 and 1300-1301: the sleep ends, run_scanner imports
\* main and awaits it
StartScanner(over) ==
    /\ spc = "sleep"
    /\ now' = (now + wait_seconds + over) % DaySeconds
    /\ starts' = Min(MaxStarts, starts + 1)
    /\ spc' = "run"
    /\ pc' = "main"
    /\ restart_count' = 0
    /\ UNCHANGED wait_seconds
    /\ CloudFrame

\* lines 1314-1316, 30 and 57-59: a KeyboardInterrupt raised inside the
\* running coroutine is caught by main, which breaks out of its loop and
\* returns; run_scanner returns and the scheduler goes round its loop
MainInterrupted(t) ==
    /\ spc = "run"
    /\ pc \in MainStates
    /\ pc' = "main_returned"
    /\ now' = t
    /\ spc' = "loop"
    /\ UNCHANGED <<restart_count, wait_seconds, starts>>
    /\ CloudFrame

\* lines 64-66: the interrupt reaches asyncio.run instead (it cancels the
\* task or is raised in the event loop); the process ends
SchedulerInterrupted ==
    /\ spc \in {"sleep", "run"}
    /\ spc' = "stopped"
    /\ pc' = "stopped"
    /\ UNCHANGED <<restart_count, now, wait_seconds, starts>>
    /\ CloudFrame

InitCloudScheduler ==
    /\ InitData
    /\ InitLimiter
    /\ InitScanner
    /\ InitScheduler
    /\ InitProvider
    /\ InitMain
    /\ InitSend
    /\ categories = << >>
    /\ pc = "not_started"
    /\ spc = "loop"
    /\ now \in ClockTimes
    /\ wait_seconds = NoTimer
    /\ starts = 0

\* the steps the program takes by itself
CloudSteps ==
    \/ ComputeWait
    \/ \E over \in Overruns : StartScanner(over)
    \/ NextRun

NextCloud ==
    \/ CloudSteps
    \/ \E t \in ClockTimes : MainInterrupted(t)
    \/ SchedulerInterrupted

\* every sleep ends and every step of the program is taken; an interrupt
\* may never come
SpecCloud == InitCloudScheduler /\ [][NextCloud]_vars /\ WF_vars(CloudSteps)

----------------------------------------------------------------------------
\* send_telegram_alert: one call, over the configured recipient list

\* entries TELEGRAM_CHAT_IDS.split(',') may hold: the id of a user, the id
\* of a group with blanks around it, a zero, and text that is no number
RawIds == {"7", " -7 ", "0", "abc"}

\* lines 1227-1228: int(chat_id.strip()); ValueError when it is no number
IntOf(raw) ==
    CASE raw = "7" -> [valid |-> TRUE, value |-> 7]
      [] raw = "0" -> [valid |-> TRUE, value |-> 0]
      [] raw = " -7 " -> [valid |-> TRUE, value |-> 0 - 7]
      [] OTHER -> [valid |-> FALSE, value |-> 0]

\* the sign of every id flipped
GroupIdFlipping(n) == 0 - n

\* lines 1229-1230: a positive id is turned into the id of a group
GroupId(n) == IF n > 0 THEN 0 - n ELSE n

AlertFrame ==
    /\ UNCHANGED <<detVars, limVars, schedVars, mainVars, restVars, provVars, cloudVars>>
    /\ UNCHANGED <<index, attempt, call, fetch_timer, cat_timer, calls, abandoned>>

\* lines 1225-1244 with a failed send_message ending the loop and the call
SendToAborting(ok) ==
    /\ pc = "send_alert"
    /\ next_chat < Len(chat_ids)
    /\ IntOf(chat_ids[next_chat + 1]).valid
    /\ sent' = Append(sent, [entry |-> next_chat + 1,
                             chat_id |-> GroupId(IntOf(chat_ids[next_chat + 1]).value),
                             ok |-> ok])
    /\ next_chat' = IF ok THEN next_chat + 1 ELSE Len(chat_ids)
    /\ raised' = ~ok
    /\ UNCHANGED <<pc, chat_ids>>
    /\ AlertFrame

\* lines 1225-1244: the entry is a number; send_message is awaited, and an
\* exception it raises is logged
SendTo(ok) ==
    /\ pc = "send_alert"
    /\ next_chat < Len(chat_ids)
    /\ IntOf(chat_ids[next_chat + 1]).valid
    /\ sent' = Append(sent, [entry |-> next_chat + 1,
                             chat_id |-> GroupId(IntOf(chat_ids[next_chat + 1]).value),
                             ok |-> ok])
    /\ next_chat' = next_chat + 1
    /\ UNCHANGED <<pc, chat_ids, raised>>
    /\ AlertFrame

\* lines 1240-1241: the entry is no number; the ValueError is logged
InvalidChatId ==
    /\ pc = "send_alert"
    /\ next_chat < Len(chat_ids)
    /\ ~IntOf(chat_ids[next_chat + 1]).valid
    /\ next_chat' = next_chat + 1
    /\ UNCHANGED <<pc, chat_ids, sent, raised>>
    /\ AlertFrame

\* the loop is over and send_telegram_alert returns
AlertReturns ==
    /\ pc = "send_alert"
    /\ next_chat = Len(chat_ids)
    /\ pc' = "alert_returned"
    /\ UNCHANGED sendVars
    /\ AlertFrame

InitAlert ==
    /\ InitData
    /\ InitLimiter
    /\ InitScanner
    /\ InitScheduler
    /\ InitProvider
    /\ InitMain
    /\ InitCloud
    /\ chat_ids \in {<< >>} \cup SeqsUpTo(RawIds, MaxRecipients)
    /\ next_chat = 0
    /\ sent = << >>
    /\ raised = FALSE
    /\ categories = << >>
    /\ pc = "send_alert"

NextAlert ==
    \/ \E ok \in BOOLEAN : SendTo(ok)
    \/ InvalidChatId
    \/ AlertReturns

SpecAlert == InitAlert /\ [][NextAlert]_vars

----------------------------------------------------------------------------
\* get_recent_trend_data on its own: one call that no timeout of a caller
\* cuts short
\* the limiter as earlier calls may have left it: fresh, or after a 429
LimiterStarts == {[count |-> 0, delay |-> InitialBaseDelay],
                  [count |-> 1, delay |-> InitialBaseDelay + DelayStep]}

InitFetch ==
    /\ InitData
    /\ \E l \in LimiterStarts :
          /\ consecutive_429s = l.count
          /\ base_delay = l.delay
    /\ window_age \in {0, WindowSeconds}
    /\ request_count = 0
    /\ current_delay = 0
    /\ lpc = "idle"
    /\ ret = "none"
    /\ streak = << >>
    /\ cancelled = FALSE
    /\ InitScheduler
    /\ InitProvider
    /\ InitMain
    /\ InitCloud
    /\ InitSend
    /\ index = 1
    /\ attempt = 0
    /\ call = "build_payload"
    /\ fetch_timer = NoTimer
    /\ cat_timer = NoTimer
    /\ calls = {}
    /\ abandoned = 0
    /\ categories = <<1>>
    /\ pc = "fetch"

NextFetch ==
    \/ Invoke
    \/ \E d \in JitterOf(current_delay) : SleepDone(d)
    \/ \E t \in ExecTimes : ExecAnswered(t)
    \/ \E t \in ExecTimes : ExecRateLimited(t)
    \/ \E t \in ExecTimes : ExecFailed(t)
    \/ CooldownDone
    \/ FetchSecondCall
    \/ \E rows \in FetchedRecent : FetchReturns(rows)
    \/ FetchRaised
    \/ Backoff

SpecFetch == InitFetch /\ [][NextFetch]_vars

----------------------------------------------------------------------------
\* get_recent_trend_data, lines 1089-1129: which rows of the provider's
\* answer are returned

\* Bound on the days the provider's answer covers
MaxDays == 3

\* the interest values of a day's rows
DayValues == {50, 95}

\* the rows of one day: none, or up to two
DayRows == {<< >>} \cup SeqsUpTo(DayValues, 2)

\* lines 1090-1129: today_data when it is not empty, else yesterday_data
\* when that is not empty, else None; data[1] holds the rows dated today,
\* data[2] those dated yesterday
TodayOrYesterday(data) ==
    IF Len(data) >= 1 /\ data[1] # << >> THEN data[1]
    ELSE IF Len(data) >= 2 /\ data[2] # << >> THEN data[2]
    ELSE << >>

\* the rows are picked from the answer and returned
SelectRows ==
    /\ pc = "recent_answered"
    /\ recent_data' = TodayOrYesterday(trend_data)
    /\ pc' = "recent_returned"
    /\ UNCHANGED <<ninety_day_data, historical_data, results, alerts, outcome>>
    /\ UNCHANGED <<index, attempt, call, fetch_timer, cat_timer, calls, abandoned>>
    /\ UNCHANGED <<limVars, schedVars>>
    /\ UNCHANGED <<mainVars, sendVars, restVars, provVars, cloudVars>>

InitRecent ==
    /\ InitData
    /\ InitLimiter
    /\ InitScanner
    /\ InitScheduler
    /\ InitMain
    /\ InitCloud
    /\ InitSend
    /\ trend_data \in UNION {[1..n -> DayRows] : n \in 1..MaxDays}
    /\ categories = <<1>>
    /\ pc = "recent_answered"

NextRecent == SelectRows

SpecRecent == InitRecent /\ [][NextRecent]_vars

----------------------------------------------------------------------------
\* Detection alone: the three series of one term are drawn, then the
\* processing block is applied to them.
InitDetect ==
    /\ recent_data \in RecentInputs \ {<< >>}
    /\ ninety_day_data \in NinetyInputs
    /\ historical_data \in HistInputs
    /\ results = << >>
    /\ alerts = << >>
    /\ outcome = "pending"
    /\ InitLimiter
    /\ InitScanner
    /\ InitScheduler
    /\ InitProvider
    /\ InitMain
    /\ InitCloud
    /\ InitSend
    /\ categories = <<1>>
    /\ pc = "detect"

Evaluate ==
    /\ pc = "detect"
    /\ outcome = "pending"
    /\ outcome' = ProcessOutcome(recent_data, ninety_day_data, historical_data)
    /\ IF outcome' = "breakout"
       THEN /\ results' = Append(results, Analysis(1, recent_data, historical_data))
            /\ alerts' = Append(alerts, BreakoutAlert(1, 1))
       ELSE UNCHANGED <<results, alerts>>
    /\ UNCHANGED <<recent_data, ninety_day_data, historical_data>>
    /\ UNCHANGED <<limVars, scanVars, schedVars>>
    /\ UNCHANGED <<mainVars, sendVars, restVars, provVars, cloudVars>>

NextDetect == Evaluate

SpecDetect == InitDetect /\ [][NextDetect]_vars

----------------------------------------------------------------------------
\* the categories among the first n of the catalog that have search terms,
\* in catalog order
WithTerms(n) == SelectSeq([i \in 1..n |-> i], LAMBDA i : categories[i] > 0)

\* C1: in one scan cycle every category of the catalog is taken up exactly
\* once, in catalog order, across all batches: the categories handed to the
\* scan are, without repetition and in order, the categories with search
\* terms among those taken up so far (one without search terms is stepped
\* over), and when the cycle ends every category has been taken up.
C1_EachCategoryOnceInOrder ==
    /\ submitted = WithTerms(IF cat_timer >= 0 THEN current_index + 1 ELSE current_index)
    /\ pc \in {"cycle_done", "cycle_failed"} => current_index = Len(categories)

\* a cycle of four categories that ended after a second batch: the first
\* three timed out and filled the 15 minutes of the first batch
C1_Witness ==
    /\ pc = "cycle_done"
    /\ batch_number = 3
    /\ submitted = <<1, 2, 3, 4>>

----------------------------------------------------------------------------
\* C2: a breakout event is in results only if its peak is at least 90,
\* exceeds the baseline maximum, and is at least 2.5 times the baseline
\* average or has z >= 3.0 together with at least 1.3 times the baseline
\* maximum.
C2_BreakoutOnlyIfRule ==
    \A i \in DOMAIN results :
        LET p == results[i].recent_peak
            b == results[i].baseline
        IN  /\ p >= 90
            /\ b # << >>
            /\ p > SeqMax(b)
            /\ \/ 2 * Len(b) * p >= 5 * SeqSum(b)
               \/ /\ ZScoreAtLeast3(p, b)
                  /\ 10 * p >= 13 * SeqMax(b)

\* a breakout that fired through the z-score path alone
C2_Witness ==
    /\ results # << >>
    /\ ~AtLeast25TimesAvg(results[1].recent_peak, results[1].baseline)

\* C3: a term whose peak is below 90 yields no breakout event and no alert.
C3_SubThresholdNeverFires ==
    (outcome # "pending" /\ SeqMax(recent_data) < 90)
        => (results = << >> /\ alerts = << >>)

C3_Witness == outcome = "below_threshold" /\ SeqMax(recent_data) = 89

\* C4: for 60 daily values of 20 followed by today's 95 (peak 95, context
\* check passed) the detector fires a breakout event.
C4_ScenarioAFires ==
    ( /\ outcome # "pending"
      /\ historical_data = ScenarioA
      /\ recent_data = <<95>>
      /\ ContextCheck(ninety_day_data) = "pass" )
        => results # << >>

\* C5: when the cycle ends, every breakout for which a per-term alert was
\* sent is an entry of the end-of-cycle summary alert.
C5_SummaryHasEveryBreakout ==
    pc = "cycle_done" =>
        \A i \in DOMAIN alerts :
            alerts[i].kind = "breakout" =>
                \E j \in DOMAIN alerts[Len(alerts)].entries :
                    /\ alerts[Len(alerts)].entries[j].category = alerts[i].category
                    /\ alerts[Len(alerts)].entries[j].term = alerts[i].term

\* C6: every call issued to the trend provider went through
\* make_trends_request.
C6_EveryCallLimited == \A c \in calls : c.limited

\* C7: over a run of consecutive calls that each end in a 429, the value
\* of base_delay after each 429 is never lower than after the one before,
\* and base_delay never exceeds the ceiling of 30 seconds.
C7_BaseDelayMonotoneCapped ==
    /\ base_delay <= 30
    /\ \A i \in DOMAIN streak :
          /\ streak[i] <= 30
          /\ i > 1 => streak[i - 1] <= streak[i]

\* six consecutive 429s, the window reset having lowered base_delay in
\* between, the last one at the ceiling
C7_Witness ==
    /\ Len(streak) >= 6
    /\ streak[1] + 5 > streak[2]
    /\ streak[Len(streak)] = 30

\* C8: a call that enters make_trends_request 60 seconds or more after the
\* window start resets request_count to 0 and lowers consecutive_429s by
\* exactly one, floored at 0; consecutive_429s is never negative.
C8_WindowResetDecays ==
    /\ [](consecutive_429s >= 0)
    /\ [][(lpc = "idle" /\ lpc' = "sleep" /\ window_age >= 60)
            => /\ request_count' = 0
               /\ consecutive_429s' =
                    IF consecutive_429s >= 1 THEN consecutive_429s - 1 ELSE 0]_vars

\* a call has just entered after a 429 and its cooldown: the window was
\* reset and the counter went from 1 to 0
C8_Witness ==
    /\ lpc = "sleep"
    /\ window_age = 0
    /\ request_count = 0
    /\ consecutive_429s = 0
    /\ streak # << >>
    /\ ~cancelled

\* C9: the number of provider calls counted in a window never exceeds
\* request_limit.
C9_RequestBudgetEnforced == request_count <= request_limit

\* C10: at most one provider call is executing at any time, the calls whose
\* await was cancelled by a timeout included.
C10_OneCallInFlight == (IF lpc = "exec" THEN 1 ELSE 0) + abandoned <= 1

\* C11: the time from the start of a batch to the end of its last category
\* scan never exceeds the ceiling of 900 seconds.
C11_BatchWithinCeiling == batch_elapsed <= 900

\* C12: an exception that escapes a cycle is caught inside
\* run_continuous_scan, which then starts a new cycle: from the handler the
\* loop goes to the start of a cycle and nowhere else, the task never leaves
\* run_continuous_scan, and every failed cycle is followed by a new one.
C12_FailedCycleRestarts ==
    /\ [][(pc = "cycle_failed") => (pc' = "cycle_start")]_vars
    /\ [][(pc \in RunStates) => (pc' \in RunStates)]_vars
    /\ (pc = "cycle_failed") ~> (pc = "cycle_start")

\* the first cycle failed and the loop is at the start of the next one a
\* minute later
C12_Witness ==
    /\ pc = "cycle_start"
    /\ restart_count = 1
    /\ time_elapsed = NoTimer
    /\ window_age = 60

\* C13: after a fatal startup fault the process exits: main does not go
\* round its loop again.
C13_StartupFaultExits == [][(pc = "start_failed") => (pc' # "main")]_vars

\* C14: send_telegram_alert takes every configured entry in turn whatever
\* happened to the ones before: the sends attempted are, in order, one for
\* each entry taken so far that is a number, addressed to its group id; no
\* exception reaches the caller, and the call returns only after the last
\* entry.
C14_EveryRecipientAttempted ==
    /\ ~raised
    /\ [k \in 1..Len(sent) |-> sent[k].entry]
          = SelectSeq([i \in 1..next_chat |-> i], LAMBDA i : IntOf(chat_ids[i]).valid)
    /\ \A k \in DOMAIN sent :
          sent[k].chat_id = GroupId(IntOf(chat_ids[sent[k].entry]).value)
    /\ pc = "alert_returned" => next_chat = Len(chat_ids)

\* the send to the first of three recipients failed, the second entry was
\* no number, and the third was still attempted
C14_Witness ==
    /\ pc = "alert_returned"
    /\ Len(chat_ids) = 3
    /\ ~IntOf(chat_ids[2]).valid
    /\ Len(sent) = 2
    /\ ~sent[1].ok
    /\ sent[2].entry = 3

\* C15: a term for which the fetch returned nothing is recorded as no-data
\* and left at once: no further provider call is issued for it, nothing is
\* appended to results, no alert is sent, and the scan goes to the next
\* term of the category (or ends the category after its last term).
C15_NoDataSkipsDetector ==
    [][(pc = "process" /\ recent_data = << >> /\ pc' # pc)
        => /\ outcome' = "no_data"
           /\ calls' = calls
           /\ alerts' = alerts
           /\ results' = results \/ pc' = "category"
           /\ \/ pc' = "term" /\ index' = index + 1 /\ current_index' = current_index
              \/ pc' = "category" /\ index = TermCount /\ current_index' = current_index + 1
              ]_vars

\* the first term of a category of two had no data and the second is next
C15_Witness ==
    /\ outcome = "no_data"
    /\ pc = "term"
    /\ index = 2
    /\ alerts = << >>

\* C16: get_recent_trend_data makes at most 3 attempts, it ends only by
\* returning to its caller, and unless its last provider call answered it
\* returns None.
C16_ThreeAttemptsThenNone ==
    /\ [](attempt < 3)
    /\ [][(pc \in {"fetch", "backoff"} /\ pc' \notin {"fetch", "backoff"})
            => /\ pc' = "process"
               /\ (call # "interest_over_time" \/ ret # "ok") => (recent_data' = << >>)
               ]_vars

\* all three attempts failed and the call returned None
C16_Witness ==
    /\ pc = "process"
    /\ attempt = 2
    /\ recent_data = << >>

\* C17: categories are taken in catalog order and the terms of a category
\* in catalog order, one after the other by the one scanning task: the
\* category index only ever goes up by one, the term index goes from one
\* term to the next only when the term before is over, and a term starts
\* with nothing of the term before still awaited.
C17_CatalogOrderSequential ==
    [][ /\ current_index' \in {current_index, current_index + 1}
        /\ (index' # index) =>
              \/ pc = "category" /\ index' = 1 /\ pc' = "term"
              \/ /\ index' = index + 1
                 /\ index' <= TermCount
                 /\ pc \in {"fetch", "backoff", "process", "historical", "alert", "pause"}
                 /\ pc' = "term"
              \/ index' = 0 /\ pc' = "category"
        /\ (pc = "term" /\ pc' # pc) =>
              /\ pc' = "fetch"
              /\ lpc = "idle"
              /\ recent_data = << >>
              /\ historical_data = << >>
      ]_vars

\* the second term of a category is being fetched, the first one over
C17_Witness ==
    /\ pc = "fetch"
    /\ index = 2
    /\ Len(categories) = 1
    /\ lpc = "exec"

\* C18: once the detector has fired for a term, the scanner leaves that
\* point only by dispatching the term's alert, and only then goes on to
\* the pause and the next term; a next term is never started with a
\* detected breakout whose alert is still to be sent.
C18_AlertBeforeNextTerm ==
    [][(pc = "alert" /\ pc' # pc) =>
          /\ alerts' = Append(alerts, BreakoutAlert(current_index + 1, index))
          /\ pc' = "pause"]_vars

\* C19: the whole processing of a term stays within the 2-minute timeout:
\* the first term of a category, which starts together with the category's
\* own timer, is never still in its 90-day check, historical fetch,
\* detection or dispatch more than 120 seconds after it started.
C19_TermWithinTwoMinutes ==
    (index = 1 /\ pc \in {"fetch", "backoff", "process", "historical", "alert"})
        => cat_timer <= TermTimeout

\* C20: whatever the outcome of a term, the scanner goes from it to the
\* next term of the category only through the 20-second pause.
C20_PauseBetweenTerms ==
    [][(index >= 1 /\ index' = index + 1) => pc = "pause"]_vars

\* C21: a scan cycle that ran to its end has dispatched exactly one
\* end-of-cycle summary, as its last alert: the summary of the breakouts
\* accumulated in the cycle, which is the 'no breakouts' summary when
\* there are none; no summary is dispatched before the end of the cycle.
C21_OneSummaryPerCycle ==
    LET summaries == SelectSeq(alerts, LAMBDA a : a.kind = "summary")
    IN  /\ (pc = "cycle_done") =>
              /\ Len(summaries) = 1
              /\ alerts[Len(alerts)] = SummaryAlert(breakouts)
        /\ (pc # "cycle_done") => summaries = << >>

\* a cycle ended with the consolidated summary after a per-term alert
C21_Witness ==
    /\ pc = "cycle_done"
    /\ breakouts # << >>
    /\ Len(alerts) = 2
    /\ alerts[2].kind = "summary"

\* C22: after a cycle that took time_elapsed seconds the scanner sleeps,
\* before the next cycle, max(0, 24 h - time_elapsed) seconds in all: every
\* heartbeat interval is a sleep of 900 seconds, there are
\* floor(sleep / 900) of them, the last sleep is shorter than 900 seconds,
\* and a cycle that took 24 hours or more is followed at once by the next.
C22_SleepsTheRemainder ==
    [][(pc = "cycle_sleep") =>
          /\ (pc' = pc) => /\ slept' = slept + 900
                           /\ interval' = interval + 1
                           /\ slept' <= 24 * 3600 - time_elapsed
          /\ (pc' # pc) =>
                /\ pc' = "cycle_start"
                /\ slept' = Max(0, 24 * 3600 - time_elapsed)
                /\ interval = Max(0, 24 * 3600 - time_elapsed) \div 900
                /\ slept' - slept < 900
                /\ slept = 900 * interval
                /\ (time_elapsed >= 24 * 3600) => slept' = 0]_vars

\* the next cycle starts after 94 heartbeat intervals and 460 more seconds
C22_Witness ==
    /\ pc = "cycle_start"
    /\ time_elapsed = 1340
    /\ interval = 94
    /\ slept = 24 * 3600 - 1340

\* C23: a batch is followed by the next one only through the rest period:
\* the batch loop is re-entered, and batch_number goes up, only from a
\* rest that has lasted at least 120 seconds; the rest is a run of sleeps
\* of 30 seconds each followed by a heartbeat, and no category is taken up
\* or stepped over while it lasts.
C23_RestBetweenBatches ==
    /\ [][(pc' = "batch_start" /\ pc # "batch_start") =>
             (pc = "rest" /\ rest_elapsed >= 120)]_vars
    /\ [][(batch_number' # batch_number) =>
             (pc = "rest" /\ rest_elapsed >= 120 /\ batch_number' = batch_number + 1)]_vars
    /\ [][(pc = "rest") =>
             /\ pc' \in {"rest", "batch_start"}
             /\ (rest_elapsed' # rest_elapsed /\ pc' = "rest") =>
                    rest_elapsed' = rest_elapsed + 30
             /\ submitted' = submitted
             /\ current_index' = current_index
             /\ calls' = calls]_vars

\* the second batch of a cycle has taken up a category
C23_Witness ==
    /\ batch_number = 2
    /\ pc = "term"
    /\ Len(submitted) = 4

\* C24: every id handed to send_message is the configured id with a
\* positive sign flipped: it is never positive, it has the magnitude of the
\* configured id, and normalizing it once more changes nothing.
C24_GroupIdNormalized ==
    /\ \A k \in DOMAIN sent :
          LET configured == IntOf(chat_ids[sent[k].entry]).value
          IN  /\ sent[k].chat_id <= 0
              /\ sent[k].chat_id \in {configured, 0 - configured}
              /\ GroupId(sent[k].chat_id) = sent[k].chat_id
    /\ \A n \in (0 - 9)..9 : GroupId(GroupId(n)) = GroupId(n)

\* a positive, a negative and a zero id have been sent to
C24_Witness ==
    /\ pc = "alert_returned"
    /\ chat_ids = <<"7", " -7 ", "0">>
    /\ [k \in 1..Len(sent) |-> sent[k].chat_id] = <<0 - 7, 0 - 7, 0>>

\* C25: for a series whose baseline standard deviation is 0 (two or more
\* baseline values, all the same) the z-score of the decision is 0 and so
\* below 3.0, and a breakout fires only with a peak of at least 2.5 times
\* the baseline average.
C25_ZeroStdZeroZScore ==
    LET b == Baseline(historical_data)
        peak == MaxInterest(recent_data)
    IN  (Len(historical_data) >= 3 /\ SpreadOf(b) = 0) =>
            /\ ZScoreZero(peak, b)
            /\ ~ZScoreAtLeast3(peak, b)
            /\ (outcome = "breakout") => AtLeast25TimesAvg(peak, b)

\* a flat baseline of 0 fired; a flat baseline of 60 under a peak of 100,
\* more than 1.3 times its maximum, would not
C25_Witness ==
    /\ outcome = "breakout"
    /\ Len(historical_data) >= 3
    /\ SpreadOf(Baseline(historical_data)) = 0

\* C26: the baseline the peak is compared against leaves out the most
\* recent observation of the historical series: the baseline of a breakout
\* event is the series without its last row, and the breakout decision is
\* the same whatever value that last row holds.
C26_BaselineExcludesLatest ==
    LET n == Len(historical_data)
        peak == MaxInterest(recent_data)
    IN  /\ \A i \in DOMAIN results :
              results[i].baseline = SubSeq(historical_data, 1, n - 1)
        /\ (n >= 1) =>
              \A v \in HistValues \cup {100} :
                  IsBreakout(peak, [historical_data EXCEPT ![n] = v])
                      = IsBreakout(peak, historical_data)

\* a breakout fired although the latest row of the series is as high as
\* the peak
C26_Witness ==
    /\ outcome = "breakout"
    /\ historical_data[Len(historical_data)] >= MaxInterest(recent_data)

\* C27: a historical series of fewer than 30 points never yields a
\* breakout: no breakout event and no alert, whatever its values.
C27_ShortSeriesNeverFires ==
    (outcome # "pending" /\ Len(historical_data) < 30)
        => (results = << >> /\ alerts = << >>)

\* C28: base_delay goes down only by 1, never below 5, and only when a
\* call enters the limiter 60 seconds or more after the window start and
\* the window that ends saw no rate-limit signal: the call before this one
\* did not end in a 429.
C28_LoweredOnlyAfterCleanWindow ==
    [][(base_delay' < base_delay) =>
          /\ lpc = "idle" /\ lpc' = "sleep"
          /\ window_age >= 60
          /\ base_delay' = base_delay - 1
          /\ base_delay' >= 5
          /\ ret # "429"]_vars

\* C29: a wrapped call that fails with a 429 adds one to consecutive_429s,
\* raises base_delay by 5 up to the ceiling of 30 and leaves request_count
\* as it was; the limiter then sleeps the cooldown of 60 seconds and hands
\* the 429 on to its caller, unless the caller cancels the call meanwhile.
C29_RateLimitHandling ==
    /\ [][(lpc = "exec" /\ ret' = "429") =>
             /\ consecutive_429s' = consecutive_429s + 1
             /\ base_delay' = IF base_delay + 5 <= 30 THEN base_delay + 5 ELSE 30
             /\ request_count' = request_count
             /\ lpc' = "cooldown"]_vars
    /\ [][(lpc = "cooldown" /\ lpc' # lpc) =>
             \/ ret' = "none" /\ cancelled'
             \/ /\ lpc' = "idle"
                /\ ret' = "429"
                /\ window_age' = 60
                /\ consecutive_429s' = consecutive_429s
                /\ base_delay' = base_delay
                /\ request_count' = request_count]_vars

\* a 429 at the ceiling has been handed on after its cooldown
C29_Witness ==
    /\ lpc = "idle"
    /\ ret = "429"
    /\ base_delay = 30
    /\ window_age = 60
    /\ Len(streak) >= 2
    /\ streak[Len(streak) - 1] = 30

\* C30: while a call sleeps in the limiter its delay is
\* base_delay * (1 + consecutive_429s), with both taken after the window
\* reset, and at least 5; the wrapped call goes to the executor only after
\* a sleep of at least the delay and at most 1.5 times the delay (seen on
\* the window clock until that stands at its 60 seconds).
C30_AdaptiveDelayBeforeCall ==
    /\ [](lpc = "sleep" =>
             /\ current_delay = base_delay * (1 + consecutive_429s)
             /\ current_delay >= 5)
    /\ [][(lpc = "idle" /\ lpc' = "sleep") =>
             current_delay' = base_delay' * (1 + consecutive_429s')]_vars
    /\ [][(lpc = "sleep" /\ lpc' = "exec") =>
             /\ window_age' >= Min(60, window_age + current_delay)
             /\ 2 * (window_age' - window_age) <= 3 * current_delay
             /\ (window_age' < 60) => window_age' - window_age >= 5]_vars

\* a call went to the executor after a sleep of 20 seconds, base_delay 10
\* doubled by one counted 429
C30_Witness ==
    /\ lpc = "exec"
    /\ consecutive_429s = 1
    /\ current_delay = 20
    /\ window_age = 50

\* C31: after a failed attempt and its backoff, get_recent_trend_data
\* sets up a fresh provider client and issues the provider request again,
\* in the attempt the failure led to.
C31_RetryReissuesRequest ==
    [][(pc = "backoff") =>
          (pc' = "fetch" /\ call' = "build_payload" /\ attempt' = attempt)]_vars

\* C32: when the answer has no rows dated today, get_recent_trend_data
\* returns the rows of the most recent earlier day that has any, and it
\* returns not-available only when the answer has no rows at all.
C32_FallsBackToLatestDay ==
    LET empty == \A k \in DOMAIN trend_data : trend_data[k] = << >>
        latest == IF empty THEN << >>
                  ELSE trend_data[CHOOSE k \in DOMAIN trend_data :
                                      /\ trend_data[k] # << >>
                                      /\ \A h \in 1..(k - 1) : trend_data[h] = << >>]
    IN  (pc = "recent_returned") =>
            /\ recent_data = latest
            /\ (recent_data = << >>) <=> empty

\* C33: an exception raised while a term is processed ends that term only:
\* the scan of a category leaves a term for the next term of the category,
\* or, after the last term, returns to its caller; it ends before its last
\* term only when the category's timeout cancels it, and it never ends the
\* cycle.
C33_TermFaultSkipsTerm ==
    [][(/\ pc \in {"fetch", "backoff", "process", "historical", "alert", "pause"}
        /\ pc' \notin {"fetch", "backoff", "process", "historical", "alert", "pause"}) =>
          \/ pc' = "term" /\ index' = index + 1 /\ current_index' = current_index
          \/ pc' = "category" /\ outcome' = "category_timeout"
          \/ pc' = "category" /\ index = TermCount /\ current_index' = current_index + 1
      ]_vars

\* the 90-day fetch of the first term raised and the second term is next
C33_Witness ==
    /\ outcome = "context_error"
    /\ pc = "term"
    /\ index = 2

\* C34: when the 300-second timeout ends the scan of a category, the
\* category index goes up by exactly one and the scheduler is back in its
\* category loop, in the same cycle and the same batch, with the catalog
\* unchanged.
C34_CategoryFaultAdvancesByOne ==
    [][(/\ pc \in {"fetch", "backoff", "process", "historical", "alert", "pause"}
        /\ outcome' = "category_timeout") =>
          /\ current_index' = current_index + 1
          /\ pc' = "category"
          /\ terms_in_current_batch' > 0
          /\ batch_number' = batch_number
          /\ categories' = categories
          /\ submitted' = submitted]_vars

\* the first category timed out and the second one has been taken up
C34_Witness ==
    /\ outcome = "category_timeout"
    /\ pc = "term"
    /\ submitted = <<1, 2>>

\* C35: for a series of at least 7 points whose latest observation is the
\* peak p and whose six observations before it all equal the baseline
\* average a > 0, the guard's recent-week average is (6a + p) / 7, so a
\* breakout that satisfies the firing rule is suppressed whenever
\* p > 4.5 * a; under a flat baseline below 20 every such breakout is
\* suppressed and no breakout event is produced.
C35_StaleGuardCountsLatest ==
    LET hist == historical_data
        n == Len(hist)
        b == SubSeq(hist, 1, n - 1)
        p == MaxInterest(recent_data)
        a == hist[n - 1]
        fits == /\ n >= 7
                /\ hist[n] = p
                /\ a > 0
                /\ \A k \in (n - 6)..(n - 1) : hist[k] = a
                /\ SeqSum(b) = a * (n - 1)
    IN  /\ (fits /\ IsBreakout(p, hist) /\ 2 * p > 9 * a) =>
               /\ StaleMomentum(hist)
               /\ outcome \in {"pending", "suppressed"} \/ ContextCheck(ninety_day_data) # "pass"
               /\ results = << >>
        /\ (fits /\ a < 20 /\ \A k \in 1..(n - 1) : hist[k] = a) => results = << >>

\* a peak of 90 over six values of 10 met the firing rule and was suppressed
C35_Witness ==
    /\ outcome = "suppressed"
    /\ historical_data = Flat(10, 6, 90)
    /\ recent_data = <<90>>

\* C36: whatever the catalog, categories without search terms included,
\* scan_all_categories does not end in an error: the cycle is never left
\* before its end-of-cycle summary.
C36_EmptyCategoriesCycleCompletes == pc # "cycle_failed"

\* C37: as long as no call of the limiter has been cancelled,
\* consecutive_429s is at most 1, and it is 0 whenever the adaptive delay
\* is computed, so the delay a call sleeps is base_delay itself.
C37_MultiplierAlwaysOne ==
    (~cancelled) =>
        /\ consecutive_429s <= 1
        /\ (lpc = "sleep") => (consecutive_429s = 0 /\ current_delay = base_delay)

\* a call sleeps its delay right after two 429s in a row, none cancelled
C37_Witness ==
    /\ ~cancelled
    /\ lpc = "sleep"
    /\ Len(streak) >= 2
    /\ current_delay = base_delay

\* C38: under the 120-second timeout of scan_trends_with_notification the
\* fetch issues provider requests in its first attempt only: a failed
\* first attempt has spent at least 5 seconds when its backoff of 120
\* seconds starts, and the backoff always ends by a timeout cancelling the
\* fetch.
C38_SecondAttemptNeverIssued ==
    /\ []((pc = "fetch" /\ lpc # "idle") => attempt = 0)
    /\ []((pc = "backoff") => (attempt = 1 /\ fetch_timer >= 5))
    /\ [][(pc = "backoff") =>
             /\ attempt' = attempt \/ pc' # pc
             /\ calls' = calls
             /\ (pc' # pc) =>
                   /\ pc' \in {"term", "category"}
                   /\ outcome' \in {"fetch_timeout", "category_timeout"}]_vars

\* the first attempt ended in a 429 and the timeout cancelled its backoff
C38_Witness ==
    /\ pc = "term"
    /\ index = 2
    /\ outcome = "fetch_timeout"
    /\ streak # << >>
    /\ abandoned = 0


\* C39: every batch of scan_all_categories advances the category index by
\* at least one. The first look of a batch at the inner loop's conditions
\* finds the batch open (there is a category left, the cap on terms is not
\* reached, the 15 minutes are not used up); terms are counted only together
\* with an advance of the index, so a batch that ends has either counted
\* terms or stepped over every category that was left; the number of
\* batches started never exceeds the number of categories taken plus one,
\* nor the number of categories; and the cycle always comes to an end.
C39_EveryBatchAdvances ==
    /\ [][(pc = "batch_start" /\ pc' = "category") =>
             (BatchOpen' /\ terms_in_current_batch' = 0
                /\ current_index' = current_index)]_vars
    /\ [][(terms_in_current_batch' > terms_in_current_batch) =>
             (current_index' = current_index + 1)]_vars
    /\ [][(pc = "category" /\ pc' \in {"rest", "cycle_failed"}) =>
             (terms_in_current_batch > 0 \/ current_index >= Len(categories))]_vars
    /\ [](batch_number <= current_index + 1)
    /\ []((pc \notin {"batch_start", "cycle_done"}) =>
             (batch_number <= Len(categories)))
    /\ <>(pc \in {"cycle_done", "cycle_failed"})

\* a cycle over four categories that ended after two batches, the first of
\* which used up its 15 minutes
C39_Witness ==
    /\ pc = "cycle_done"
    /\ Len(categories) = 4
    /\ batch_number = 3
    /\ submitted = <<1, 2, 3, 4>>


\* C40: the scheduler of cloud_scheduler.py runs the scanner daily: every
\* wait it computes is strictly positive and at most 24 hours; whenever
\* run_scanner has been started the scheduler eventually waits again; and
\* unless the process is stopped the scanner is started again and again.
C40_DailyRunsForever ==
    /\ []((spc = "sleep") => (wait_seconds > 0 /\ wait_seconds <= DaySeconds))
    /\ ((spc = "run") ~> (spc \in {"sleep", "stopped"}))
    /\ []<>(spc \in {"sleep", "stopped"})

=============================================================================
